---- MODULE Spec2Model ----
(***************************************************************************)
(* The versioned entity store of backend/src/services/dynamodb.ts:         *)
(* DynamoDBService over one wide table keyed by (PK, SK), where V0 is the  *)
(* current record of an entity and V1, V2, ... are archived versions.      *)
(*                                                                         *)
(* Every await of the service is a step of its own: a command is issued    *)
(* in the synchronous slice that precedes the await and is applied to the  *)
(* table when the step that completes it fires.  Spec runs the calls one   *)
(* at a time (a call starts only when no other call is in flight).         *)
(* SpecFail adds the rejection of every storage command, SpecConc runs two *)
(* versioned updates of one user at the same time, SpecUsers is            *)
(* UserService.createUser and SpecPut the PUT /:id handler of the prenup   *)
(* routes, with two requests in flight.                                    *)
(*                                                                         *)
(* Ids come from generateEntityId and are never handed out twice.  The     *)
(* payloads of update are the ones the services pass: fields outside       *)
(* BaseEntity (userService.ts:57, prenupService.ts:52).                    *)
(***************************************************************************)
EXTENDS Integers, Sequences, FiniteSets, TLC

\* ---------------------------------------------------------------- bounds
MaxTime == 1        \* the clock runs over 0..MaxTime
MaxIds == 1         \* generateEntityId hands out the ids 1..MaxIds

\* ------------------------------------------------------- program values
Procs == {"p1", "p2"}

EntityType == {"USER", "PRENUP"}

LATEST_VERSION == "V0"

\* version keys are V0, V1, ...; no key beyond V<MaxVersion> is ever parsed
MaxVersion == 4

Ids == 1..MaxIds
Times == 0..MaxTime

\* fields of an entity that are not BaseEntity fields
DomainFields(entityType) ==
    IF entityType = "USER" THEN {"email", "firstName"} ELSE {"title", "status"}

FieldValues(field) ==
    CASE field = "email" -> {"a@x.com"}
      [] field = "firstName" -> {"Ann", "Bob"}
      [] field = "title" -> {"T"}
      [] field = "status" -> {"DRAFT"}

AllFieldValues == UNION {FieldValues(f) : f \in {"email", "firstName", "title", "status"}}

\* the partial payloads the services hand to update: fields outside BaseEntity
Payloads(entityType) ==
    UNION {{u \in [S -> AllFieldValues] : \A f \in S : u[f] \in FieldValues(f)} :
           S \in SUBSET DomainFields(entityType)}

\* the data the services hand to create<Kind>Entity
EntityData(entityType) ==
    {u \in Payloads(entityType) : DOMAIN u = DomainFields(entityType)}

\* ------------------------------------------------------------- helpers
\* { ...a, ...b }
Spread(a, b) ==
    [f \in DOMAIN a \cup DOMAIN b |-> IF f \in DOMAIN b THEN b[f] ELSE a[f]]

\* faulty variant: the key attributes are left in the result
StripKeys_Kept(item) == item

\* const { PK, SK, ...entity } = item
StripKeys(item) == [f \in DOMAIN item \ {"PK", "SK"} |-> item[f]]

createPartitionKey(entityType, id) == <<entityType, id>>

\* versionNumber is {} for undefined, {n} otherwise
createVersionKey(versionNumber) ==
    IF versionNumber = {} THEN LATEST_VERSION
    ELSE "V" \o ToString(CHOOSE n \in versionNumber : TRUE)

parseVersionNumber(versionKey) ==
    CHOOSE n \in 0..MaxVersion : ("V" \o ToString(n)) = versionKey

getNextVersionKey(currentVersion) ==
    IF currentVersion = LATEST_VERSION THEN "V1"
    ELSE createVersionKey({parseVersionNumber(currentVersion) + 1})

\* ------------------------------------------------- the table (DynamoDB)
EmptyTable == [k \in {} |-> {}]

ItemKey(item) == <<item.PK, item.SK>>

PutCommand(t, item) ==
    [k \in DOMAIN t \cup {ItemKey(item)} |-> IF k = ItemKey(item) THEN item ELSE t[k]]

\* Item of the GetCommand's result: {} when there is none
GetCommand(t, key) == IF key \in DOMAIN t THEN {t[key]} ELSE {}

DeleteCommand(t, key) == [k \in DOMAIN t \ {key} |-> t[k]]

\* SET name = value, ... on the item at key; creates the item when absent
UpdatedItem(t, key, sets) ==
    Spread(IF key \in DOMAIN t THEN t[key] ELSE [PK |-> key[1], SK |-> key[2]], sets)

UpdateCommand(t, key, sets) == PutCommand(t, UpdatedItem(t, key, sets))

\* KeyConditionExpression PK = :pk
QueryCommand(t, pk) == {t[k] : k \in {x \in DOMAIN t : x[1] = pk}}

\* ---------------------------------------------------------------- state
VARIABLES
    table,      \* the DynamoDB table: (PK, SK) -> item
    clock,      \* what new Date() reads
    nextId,     \* the next id generateEntityId hands out
    calls       \* per process: the call in flight, its locals and its result

vars == <<table, clock, nextId, calls>>

PKs == EntityType \X Ids

NoResult == [status |-> "pending", value |-> {}, error |-> <<>>]

\* before is the table as the call found it; sent lists the commands the call
\* has issued and acked counts the ones that have completed; failed holds the
\* commands the storage rejected (positions in sent, keys for DeleteCommands)
Idle == [op |-> "idle", pc |-> "idle", args |-> <<>>, before |-> EmptyTable,
         now |-> 0, current |-> {},
         versions |-> {}, pending |-> {}, sent |-> <<>>, acked |-> 0,
         failed |-> {}, result |-> NoResult]

Init ==
    /\ table = EmptyTable
    /\ clock = 0
    /\ nextId = 1
    /\ calls = [p \in Procs |-> Idle]

AllIdle == \A q \in Procs : calls[q].op = "idle"

Ok(value) == [status |-> "ok", value |-> value, error |-> <<>>]
Err(message) == [status |-> "error", value |-> {}, error |-> message]

\* ---------------------------------------------------------------- create
generateEntityId == nextId

\* create<Kind>Entity(data): { ...data, id, entityType }
createEntity(entityType, data) ==
    Spread(data, [id |-> generateEntityId, entityType |-> entityType])

entityWithMeta(entity, now) ==
    Spread(entity, [createdAt |-> now, updatedAt |-> now, version |-> LATEST_VERSION])

\* faulty variant: the new record is put under the first archive key
createItem_ArchiveKey(entity, now) ==
    Spread([PK |-> createPartitionKey(entity.entityType, entity.id), SK |-> "V1"],
           [f \in DOMAIN entity \cup {"createdAt", "updatedAt", "version"} |->
              IF f \in {"createdAt", "updatedAt"} THEN now
              ELSE IF f = "version" THEN LATEST_VERSION ELSE entity[f]])

createItem(entity, now) ==
    Spread([PK |-> createPartitionKey(entity.entityType, entity.id), SK |-> LATEST_VERSION],
           entityWithMeta(entity, now))

StartCreate(p, entityType, data) ==
    /\ calls[p].op = "idle"
    /\ nextId <= MaxIds
    /\ LET entity == createEntity(entityType, data) IN
       calls' = [calls EXCEPT ![p] =
                    [Idle EXCEPT !.op = "create", !.pc = "put", !.before = table,
                                 !.args = [entity |-> entity],
                                 !.now = clock,
                                 !.sent = <<[cmd |-> "Put", item |-> createItem(entity, clock)]>>]]
    /\ nextId' = nextId + 1
    /\ UNCHANGED <<table, clock>>

CreatePut(p) ==
    /\ calls[p].op = "create" /\ calls[p].pc = "put"
    /\ table' = PutCommand(table, calls[p].sent[1].item)
    /\ calls' = [calls EXCEPT ![p].pc = "done", ![p].acked = 1,
                              ![p].result = Ok({entityWithMeta(calls[p].args.entity, calls[p].now)})]
    /\ UNCHANGED <<clock, nextId>>

\* --------------------------------------------------------------- getById
\* faulty variant: a version that is not stored falls back to the current record
getById_FallsBack(t, entityType, id, version) ==
    LET pk == createPartitionKey(entityType, id)
        Item == IF <<pk, version>> \in DOMAIN t THEN GetCommand(t, <<pk, version>>)
                ELSE GetCommand(t, <<pk, LATEST_VERSION>>)
    IN
    IF Item = {} THEN {} ELSE {StripKeys(i) : i \in Item}

getById(t, entityType, id, version) ==
    LET Item == GetCommand(t, <<createPartitionKey(entityType, id), version>>) IN
    IF Item = {} THEN {} ELSE {StripKeys(i) : i \in Item}

StartGetById(p, entityType, id, version) ==
    /\ calls[p].op = "idle"
    /\ calls' = [calls EXCEPT ![p] =
                    [Idle EXCEPT !.op = "getById", !.pc = "get", !.before = table,
                                 !.args = [entityType |-> entityType, id |-> id, version |-> version],
                                 !.sent = <<[cmd |-> "Get",
                                             key |-> <<createPartitionKey(entityType, id), version>>]>>]]
    /\ UNCHANGED <<table, clock, nextId>>

GetByIdGet(p) ==
    /\ calls[p].op = "getById" /\ calls[p].pc = "get"
    /\ calls' = [calls EXCEPT ![p].pc = "done", ![p].acked = 1,
                              ![p].result = Ok(getById(table, calls[p].args.entityType,
                                                       calls[p].args.id, calls[p].args.version))]
    /\ UNCHANGED <<table, clock, nextId>>

\* ---------------------------------------------------------------- update
\* faulty variant: the archive record keeps the version tag of the entity
archiveItem_KeepsVersion(pk, entity) ==
    Spread([PK |-> pk, SK |-> getNextVersionKey(entity.version)], entity)

\* faulty variant: the archive record is put under the entity's own version key
archiveItem_AtOwnKey(pk, entity) ==
    Spread(Spread([PK |-> pk, SK |-> entity.version], entity),
           [version |-> getNextVersionKey(entity.version)])

\* archiveVersion(pk, entity): the item it puts
archiveItem(pk, entity) ==
    Spread(Spread([PK |-> pk, SK |-> getNextVersionKey(entity.version)], entity),
           [version |-> getNextVersionKey(entity.version)])

\* faulty variant: the creation time is stamped anew along with updatedAt
updatedEntity_Recreated(current, updates, now) ==
    Spread(Spread(current, updates),
           [createdAt |-> now, updatedAt |-> now, version |-> LATEST_VERSION])

\* faulty variant: the spread order is swapped, { ...updates, ...current, ... }
updatedEntity_CurrentWins(current, updates, now) ==
    Spread(Spread(updates, current), [updatedAt |-> now, version |-> LATEST_VERSION])

\* { ...current, ...updates, updatedAt: now, version: LATEST_VERSION }
updatedEntity(current, updates, now) ==
    Spread(Spread(current, updates), [updatedAt |-> now, version |-> LATEST_VERSION])

updatedItem(pk, current, updates, now) ==
    Spread([PK |-> pk, SK |-> LATEST_VERSION], updatedEntity(current, updates, now))

\* the SET clauses: one per entry of updates, then updatedAt
buildUpdateExpression(updates, now) == Spread(updates, [updatedAt |-> now])

StartUpdate(p, entityType, id, updates, createNewVersion) ==
    /\ calls[p].op = "idle"
    /\ calls' = [calls EXCEPT ![p] =
                    [Idle EXCEPT !.op = "update", !.pc = "get", !.before = table,
                                 !.args = [entityType |-> entityType, id |-> id,
                                           updates |-> updates,
                                           createNewVersion |-> createNewVersion],
                                 !.sent = <<[cmd |-> "Get",
                                             key |-> <<createPartitionKey(entityType, id),
                                                       LATEST_VERSION>>]>>]]
    /\ UNCHANGED <<table, clock, nextId>>

\* faulty variant: the check of current against null is missing
UpdateGet_NoCheck(p) ==
    /\ calls[p].op = "update" /\ calls[p].pc = "get"
    /\ LET a == calls[p].args
           pk == createPartitionKey(a.entityType, a.id)
           current == getById(table, a.entityType, a.id, LATEST_VERSION)
       IN
       IF a.createNewVersion
       THEN IF current = {}
            THEN calls' = [calls EXCEPT ![p].pc = "done", ![p].acked = 1,
                                        ![p].result = Err(<<"TypeError">>)]
            ELSE calls' = [calls EXCEPT ![p].pc = "archive", ![p].acked = 1,
                             ![p].current = current, ![p].now = clock,
                             ![p].sent = Append(@, [cmd |-> "Put",
                                  item |-> archiveItem(pk, CHOOSE c \in current : TRUE)])]
       ELSE calls' = [calls EXCEPT ![p].pc = "updateItem", ![p].acked = 1,
                        ![p].current = current, ![p].now = clock,
                        ![p].sent = Append(@, [cmd |-> "Update",
                                               key |-> <<pk, LATEST_VERSION>>,
                                               sets |-> buildUpdateExpression(a.updates, clock)])]
    /\ UNCHANGED <<table, clock, nextId>>

\* const current = await this.getById(entityType, id), and the slice after it
UpdateGet(p) ==
    /\ calls[p].op = "update" /\ calls[p].pc = "get"
    /\ LET a == calls[p].args
           pk == createPartitionKey(a.entityType, a.id)
           current == getById(table, a.entityType, a.id, LATEST_VERSION)
       IN
       IF current = {}
       THEN calls' = [calls EXCEPT ![p].pc = "done", ![p].acked = 1,
                                   ![p].result = Err(<<"Entity ", pk, " not found">>)]
       ELSE LET cur == CHOOSE c \in current : TRUE IN
            IF a.createNewVersion /\ "version" \notin DOMAIN cur
            THEN \* getNextVersionKey(undefined): undefined.substring(1) throws
                 calls' = [calls EXCEPT ![p].pc = "done", ![p].acked = 1,
                                        ![p].current = current, ![p].now = clock,
                                        ![p].result = Err(<<"TypeError">>)]
            ELSE IF a.createNewVersion
            THEN calls' = [calls EXCEPT ![p].pc = "archive", ![p].acked = 1,
                             ![p].current = current, ![p].now = clock,
                             ![p].sent = Append(@, [cmd |-> "Put", item |-> archiveItem(pk, cur)])]
            ELSE calls' = [calls EXCEPT ![p].pc = "updateItem", ![p].acked = 1,
                             ![p].current = current, ![p].now = clock,
                             ![p].sent = Append(@, [cmd |-> "Update",
                                                    key |-> <<pk, LATEST_VERSION>>,
                                                    sets |-> buildUpdateExpression(a.updates, clock)])]
    /\ UNCHANGED <<table, clock, nextId>>

\* await this.archiveVersion(pk, current), then the put of the new V0 is sent
UpdateArchive(p) ==
    /\ calls[p].op = "update" /\ calls[p].pc = "archive"
    /\ LET a == calls[p].args
           pk == createPartitionKey(a.entityType, a.id)
           cur == CHOOSE c \in calls[p].current : TRUE
       IN
       /\ table' = PutCommand(table, calls[p].sent[2].item)
       /\ calls' = [calls EXCEPT ![p].pc = "put", ![p].acked = 2,
                       ![p].sent = Append(@, [cmd |-> "Put",
                                              item |-> updatedItem(pk, cur, a.updates, calls[p].now)])]
    /\ UNCHANGED <<clock, nextId>>

\* faulty variant: the payload is laid over the V0 record stored at the time of
\* the put rather than over the one that was read
UpdatePut_Remerge(p) ==
    /\ calls[p].op = "update" /\ calls[p].pc = "put"
    /\ LET a == calls[p].args
           pk == createPartitionKey(a.entityType, a.id)
           stored == StripKeys(table[<<pk, LATEST_VERSION>>])
       IN
       /\ table' = PutCommand(table, updatedItem(pk, stored, a.updates, calls[p].now))
       /\ calls' = [calls EXCEPT ![p].pc = "done", ![p].acked = 3,
                       ![p].result = Ok({updatedEntity(stored, a.updates, calls[p].now)})]
    /\ UNCHANGED <<clock, nextId>>

\* await docClient.send(new PutCommand(...)) of the new V0; return updatedEntity
UpdatePut(p) ==
    /\ calls[p].op = "update" /\ calls[p].pc = "put"
    /\ LET a == calls[p].args
           pk == createPartitionKey(a.entityType, a.id)
           cur == CHOOSE c \in calls[p].current : TRUE
       IN
       /\ table' = PutCommand(table, calls[p].sent[3].item)
       /\ calls' = [calls EXCEPT ![p].pc = "done", ![p].acked = 3,
                       ![p].result = Ok({updatedEntity(cur, a.updates, calls[p].now)})]
    /\ UNCHANGED <<clock, nextId>>

\* faulty variant: the in-place update archives the record it replaces
UpdateInPlace_Archives(p) ==
    /\ calls[p].op = "update" /\ calls[p].pc = "updateItem"
    /\ LET c == calls[p].sent[2]
           cur == CHOOSE e \in calls[p].current : TRUE
       IN
       /\ table' = PutCommand(UpdateCommand(table, c.key, c.sets), archiveItem(c.key[1], cur))
       /\ calls' = [calls EXCEPT ![p].pc = "done", ![p].acked = 2,
                       ![p].result = Ok({StripKeys(UpdatedItem(table, c.key, c.sets))})]
    /\ UNCHANGED <<clock, nextId>>

\* await docClient.send(new UpdateCommand(params)) with ReturnValues ALL_NEW
UpdateInPlace(p) ==
    /\ calls[p].op = "update" /\ calls[p].pc = "updateItem"
    /\ LET c == calls[p].sent[2] IN
       /\ table' = UpdateCommand(table, c.key, c.sets)
       /\ calls' = [calls EXCEPT ![p].pc = "done", ![p].acked = 2,
                       ![p].result = Ok({StripKeys(UpdatedItem(table, c.key, c.sets))})]
    /\ UNCHANGED <<clock, nextId>>

\* ---------------------------------------------------------------- delete
\* faulty variant: only the current record is found
getAllVersions_LatestOnly(t, pk) == {i \in QueryCommand(t, pk) : i.SK = LATEST_VERSION}

getAllVersions(t, pk) == QueryCommand(t, pk)

StartDelete(p, entityType, id) ==
    /\ calls[p].op = "idle"
    /\ calls' = [calls EXCEPT ![p] =
                    [Idle EXCEPT !.op = "delete", !.pc = "query", !.before = table,
                                 !.args = [entityType |-> entityType, id |-> id],
                                 !.sent = <<[cmd |-> "Query",
                                             pk |-> createPartitionKey(entityType, id)]>>]]
    /\ UNCHANGED <<table, clock, nextId>>

\* const versions = await this.getAllVersions(pk); every DeleteCommand is sent
\* at once (versions.map) and Promise.all awaits them
DeleteQuery(p) ==
    /\ calls[p].op = "delete" /\ calls[p].pc = "query"
    /\ LET a == calls[p].args
           pk == createPartitionKey(a.entityType, a.id)
           versions == getAllVersions(table, pk)
       IN
       IF versions = {}
       THEN calls' = [calls EXCEPT ![p].pc = "done", ![p].acked = 1,
                                   ![p].result = Ok({})]
       ELSE calls' = [calls EXCEPT ![p].pc = "deleting", ![p].acked = 1,
                                   ![p].versions = versions,
                                   ![p].pending = {<<pk, v.SK>> : v \in versions}]
    /\ UNCHANGED <<table, clock, nextId>>

\* one of the DeleteCommands completes; the last one resolves Promise.all
DeleteOne(p, key) ==
    /\ calls[p].op = "delete" /\ calls[p].pc = "deleting"
    /\ key \in calls[p].pending
    /\ table' = DeleteCommand(table, key)
    /\ calls' = [calls EXCEPT ![p].pending = @ \ {key}, ![p].acked = @ + 1,
                              ![p].pc = IF calls[p].pending = {key} THEN "done" ELSE "deleting",
                              ![p].result = IF calls[p].pending = {key} THEN Ok({}) ELSE @]
    /\ UNCHANGED <<clock, nextId>>

\* any one of the outstanding DeleteCommands completes next
DeleteNext(p) == \E key \in calls[p].pending : DeleteOne(p, key)

\* ----------------------------------------------------- queryByEntityType
\* faulty variant: the filter tests the kind only, not the sort key
ScanCommand_AnyVersion(t, entityType, version) ==
    {t[k] : k \in {x \in DOMAIN t : t[x].entityType = entityType}}

\* FilterExpression '#entityType = :entityType AND #sk = :version'; the table
\* is read in one page
ScanCommand(t, entityType, version) ==
    {t[k] : k \in {x \in DOMAIN t : t[x].entityType = entityType /\ t[x].SK = version}}

\* items of queryByEntityType(entityType) called without limit and lastKey
queryByEntityType(t, entityType) ==
    {StripKeys(i) : i \in ScanCommand(t, entityType, LATEST_VERSION)}

StartQuery(p, entityType) ==
    /\ calls[p].op = "idle"
    /\ calls' = [calls EXCEPT ![p] =
                    [Idle EXCEPT !.op = "queryByEntityType", !.pc = "scan", !.before = table,
                                 !.args = [entityType |-> entityType],
                                 !.sent = <<[cmd |-> "Scan", entityType |-> entityType,
                                             version |-> LATEST_VERSION]>>]]
    /\ UNCHANGED <<table, clock, nextId>>

\* const result = await docClient.send(new ScanCommand(params)); return items
QueryScan(p) ==
    /\ calls[p].op = "queryByEntityType" /\ calls[p].pc = "scan"
    /\ calls' = [calls EXCEPT ![p].pc = "done", ![p].acked = 1,
                              ![p].result = Ok(queryByEntityType(table, calls[p].args.entityType))]
    /\ UNCHANGED <<table, clock, nextId>>

\* ---------------------------------------------------------------- return
\* the caller takes the result of a finished call
Return(p) ==
    /\ calls[p].pc = "done"
    /\ calls' = [calls EXCEPT ![p] = Idle]
    /\ UNCHANGED <<table, clock, nextId>>

Tick ==
    /\ clock < MaxTime
    /\ clock' = clock + 1
    /\ UNCHANGED <<table, nextId, calls>>

\* ------------------------------------------------- calls one at a time
\* a request is served only when no other call is in flight
CallCreate(p, entityType, data) == AllIdle /\ StartCreate(p, entityType, data)

CallGetById(p, entityType, id, version) == AllIdle /\ StartGetById(p, entityType, id, version)

CallUpdate(p, entityType, id, updates, createNewVersion) ==
    AllIdle /\ StartUpdate(p, entityType, id, updates, createNewVersion)

CallDelete(p, entityType, id) == AllIdle /\ StartDelete(p, entityType, id)

CallQueryByEntityType(p, entityType) == AllIdle /\ StartQuery(p, entityType)

Next ==
    \/ \E entityType \in EntityType : \E data \in EntityData(entityType) :
         CallCreate("p1", entityType, data)
    \/ \E entityType \in EntityType : \E id \in Ids : \E version \in {"V0", "V1", "V2"} :
         CallGetById("p1", entityType, id, version)
    \/ \E entityType \in EntityType : \E id \in Ids :
         \E updates \in Payloads(entityType) : \E createNewVersion \in BOOLEAN :
           CallUpdate("p1", entityType, id, updates, createNewVersion)
    \/ \E entityType \in EntityType : \E id \in Ids : CallDelete("p1", entityType, id)
    \/ \E entityType \in EntityType : CallQueryByEntityType("p1", entityType)
    \/ \E p \in Procs : CreatePut(p)
    \/ \E p \in Procs : GetByIdGet(p)
    \/ \E p \in Procs : UpdateGet(p)
    \/ \E p \in Procs : UpdateArchive(p)
    \/ \E p \in Procs : UpdatePut(p)
    \/ \E p \in Procs : UpdateInPlace(p)
    \/ \E p \in Procs : DeleteQuery(p)
    \/ \E p \in Procs : DeleteNext(p)
    \/ \E p \in Procs : QueryScan(p)
    \/ \E p \in Procs : Return(p)
    \/ Tick

Spec == Init /\ [][Next]_vars

\* ------------------------------------------------------- storage failures
\* docClient.send rejects: the command is not applied and the rejection is the
\* error the awaiting code sees
StorageError(command) == <<"StorageError", command>>

\* the last command the call has sent
LastSent(p) == calls[p].sent[Len(calls[p].sent)]

\* the call of p ends with the rejection of the command it is awaiting
Rejects(p) ==
    calls' = [calls EXCEPT ![p].pc = "done", ![p].failed = {Len(calls[p].sent)},
                           ![p].result = Err(StorageError(LastSent(p)))]

\* faulty variant: the rejection is replaced by an error of create's own
CreatePutFail_Wrapped(p) ==
    /\ calls[p].op = "create" /\ calls[p].pc = "put"
    /\ calls' = [calls EXCEPT ![p].pc = "done", ![p].failed = {Len(calls[p].sent)},
                              ![p].result = Err(<<"Error creating entity">>)]
    /\ UNCHANGED <<table, clock, nextId>>

\* create: the PutCommand rejects; catch (error) { ...; throw error }
CreatePutFail(p) ==
    /\ calls[p].op = "create" /\ calls[p].pc = "put"
    /\ Rejects(p)
    /\ UNCHANGED <<table, clock, nextId>>

\* getById: the GetCommand rejects; catch (error) { ...; throw error }
GetByIdGetFail(p) ==
    /\ calls[p].op = "getById" /\ calls[p].pc = "get"
    /\ Rejects(p)
    /\ UNCHANGED <<table, clock, nextId>>

\* update: await this.getById rejects and update has no catch
UpdateGetFail(p) ==
    /\ calls[p].op = "update" /\ calls[p].pc = "get"
    /\ Rejects(p)
    /\ UNCHANGED <<table, clock, nextId>>

\* faulty variant: the rejection of the archive put is dropped and the put of
\* the new V0 goes out
UpdateArchiveFail_Swallowed(p) ==
    /\ calls[p].op = "update" /\ calls[p].pc = "archive"
    /\ LET a == calls[p].args
           pk == createPartitionKey(a.entityType, a.id)
           cur == CHOOSE c \in calls[p].current : TRUE
       IN
       calls' = [calls EXCEPT ![p].pc = "put", ![p].failed = {2},
                    ![p].sent = Append(@, [cmd |-> "Put",
                                           item |-> updatedItem(pk, cur, a.updates, calls[p].now)])]
    /\ UNCHANGED <<table, clock, nextId>>

\* update: await this.archiveVersion rejects (archiveVersion has no catch, and
\* neither has update), so the slice that sends the put of V0 never runs
UpdateArchiveFail(p) ==
    /\ calls[p].op = "update" /\ calls[p].pc = "archive"
    /\ Rejects(p)
    /\ UNCHANGED <<table, clock, nextId>>

\* update: the PutCommand of the new V0 rejects
UpdatePutFail(p) ==
    /\ calls[p].op = "update" /\ calls[p].pc = "put"
    /\ Rejects(p)
    /\ UNCHANGED <<table, clock, nextId>>

\* update: the UpdateCommand rejects
UpdateInPlaceFail(p) ==
    /\ calls[p].op = "update" /\ calls[p].pc = "updateItem"
    /\ Rejects(p)
    /\ UNCHANGED <<table, clock, nextId>>

\* delete: await this.getAllVersions rejects; no DeleteCommand is built
DeleteQueryFail(p) ==
    /\ calls[p].op = "delete" /\ calls[p].pc = "query"
    /\ Rejects(p)
    /\ UNCHANGED <<table, clock, nextId>>

\* one of the DeleteCommands rejects: the first rejection rejects Promise.all,
\* and with it delete, while the other DeleteCommands stay in flight
DeleteOneFail(p, key) ==
    /\ calls[p].op = "delete" /\ calls[p].pc \in {"deleting", "rejected"}
    /\ key \in calls[p].pending
    /\ calls' = [calls EXCEPT ![p].pending = @ \ {key}, ![p].failed = @ \cup {key},
                              ![p].pc = IF calls[p].pending = {key} THEN "done" ELSE "rejected",
                              ![p].result = IF calls[p].pc = "deleting"
                                            THEN Err(StorageError([cmd |-> "Delete", key |-> key]))
                                            ELSE @]
    /\ UNCHANGED <<table, clock, nextId>>

DeleteNextFail(p) == \E key \in calls[p].pending : DeleteOneFail(p, key)

\* faulty variant: a DeleteCommand still in flight when Promise.all rejects is
\* called off
DeleteOneLate_CalledOff(p, key) ==
    /\ calls[p].op = "delete" /\ calls[p].pc = "rejected"
    /\ key \in calls[p].pending
    /\ calls' = [calls EXCEPT ![p].pending = @ \ {key},
                              ![p].pc = IF calls[p].pending = {key} THEN "done" ELSE "rejected"]
    /\ UNCHANGED <<table, clock, nextId>>

\* a DeleteCommand completes after Promise.all has rejected: nothing calls it
\* off and nothing puts back what the others have deleted
DeleteOneLate(p, key) ==
    /\ calls[p].op = "delete" /\ calls[p].pc = "rejected"
    /\ key \in calls[p].pending
    /\ table' = DeleteCommand(table, key)
    /\ calls' = [calls EXCEPT ![p].pending = @ \ {key}, ![p].acked = @ + 1,
                              ![p].pc = IF calls[p].pending = {key} THEN "done" ELSE "rejected"]
    /\ UNCHANGED <<clock, nextId>>

DeleteNextLate(p) == \E key \in calls[p].pending : DeleteOneLate(p, key)

\* the calls one at a time, every storage command free to fail
NextFail ==
    \/ Next
    \/ \E p \in Procs : CreatePutFail(p)
    \/ \E p \in Procs : GetByIdGetFail(p)
    \/ \E p \in Procs : UpdateGetFail(p)
    \/ \E p \in Procs : UpdateArchiveFail(p)
    \/ \E p \in Procs : UpdatePutFail(p)
    \/ \E p \in Procs : UpdateInPlaceFail(p)
    \/ \E p \in Procs : DeleteQueryFail(p)
    \/ \E p \in Procs : DeleteNextFail(p)
    \/ \E p \in Procs : DeleteNextLate(p)

SpecFail == Init /\ [][NextFail]_vars

\* ------------------------------------------------------ concurrent updates
\* a user has registered (create has stored its record at time 0), and no call
\* is in flight
InitConc ==
    /\ \E data \in EntityData("USER") :
         table = PutCommand(EmptyTable,
                            createItem(Spread(data, [id |-> 1, entityType |-> "USER"]), 0))
    /\ clock = 0
    /\ nextId = 2
    /\ calls = [p \in Procs |-> Idle]

\* the email addresses users register and are updated with
Emails == {"a@x.com", "b@x.com"}

\* the payloads of the concurrent requests: each names one field
OneFieldPayloads ==
    {[f \in {"email"} |-> e] : e \in Emails}
        \cup {[f \in {"firstName"} |-> n] : n \in FieldValues("firstName")}

\* two requests update at the same time: a versioned update starts whether or
\* not another call is in flight, and the steps of the two interleave freely
\* within one reading of the clock
NextConc ==
    \/ \E p \in Procs : \E id \in Ids : \E updates \in OneFieldPayloads :
         StartUpdate(p, "USER", id, updates, TRUE)
    \/ \E p \in Procs : UpdateGet(p)
    \/ \E p \in Procs : UpdateArchive(p)
    \/ \E p \in Procs : UpdatePut(p)
    \/ \E p \in Procs : Return(p)

SpecConc == InitConc /\ [][NextConc]_vars

\* ------------------------------------------------ UserService.createUser
MaxUsers == 2       \* createUser hands out the ids 1..MaxUsers

\* what a registration carries (of its fields, the ones the model keeps)
UserData == {u \in [{"email", "firstName"} -> Emails \cup FieldValues("firstName")] :
                u.email \in Emails /\ u.firstName \in FieldValues("firstName")}

\* result.items.find(u => u.email === email) || null
getUserByEmail(t, email) ==
    LET found == {u \in queryByEntityType(t, "USER") : u.email = email} IN
    IF found = {} THEN {} ELSE {CHOOSE u \in found : TRUE}

StartCreateUser(p, userData) ==
    /\ calls[p].op = "idle"
    /\ nextId <= MaxUsers
    /\ calls' = [calls EXCEPT ![p] =
                    [Idle EXCEPT !.op = "createUser", !.pc = "scan", !.before = table,
                                 !.args = [userData |-> userData],
                                 !.sent = <<[cmd |-> "Scan", entityType |-> "USER",
                                             version |-> LATEST_VERSION]>>]]
    /\ UNCHANGED <<table, clock, nextId>>

\* faulty variant: the check of existingUser is missing
CreateUserScan_NoCheck(p) ==
    /\ calls[p].op = "createUser" /\ calls[p].pc = "scan"
    /\ calls' = [calls EXCEPT ![p].pc = "hash", ![p].acked = 1,
                              ![p].current = getUserByEmail(table, calls[p].args.userData.email)]
    /\ UNCHANGED <<table, clock, nextId>>

\* const existingUser = await this.getUserByEmail(userData.email)
CreateUserScan(p) ==
    /\ calls[p].op = "createUser" /\ calls[p].pc = "scan"
    /\ LET existingUser == getUserByEmail(table, calls[p].args.userData.email) IN
       IF existingUser # {}
       THEN calls' = [calls EXCEPT ![p].pc = "done", ![p].acked = 1,
                         ![p].current = existingUser,
                         ![p].result = Err(<<"User already exists with this email">>)]
       ELSE calls' = [calls EXCEPT ![p].pc = "hash", ![p].acked = 1,
                         ![p].current = existingUser]
    /\ UNCHANGED <<table, clock, nextId>>

\* await bcrypt.hash(...) completes; createUserEntity draws the id and
\* dynamodbService.create stamps the entity and sends its put
CreateUserHash(p) ==
    /\ calls[p].op = "createUser" /\ calls[p].pc = "hash"
    /\ LET entity == createEntity("USER", calls[p].args.userData) IN
       calls' = [calls EXCEPT ![p].pc = "put", ![p].now = clock,
                    ![p].args = [userData |-> calls[p].args.userData, entity |-> entity],
                    ![p].sent = Append(@, [cmd |-> "Put", item |-> createItem(entity, clock)])]
    /\ nextId' = nextId + 1
    /\ UNCHANGED <<table, clock>>

\* const user = await dynamodbService.create<User>(userEntity); return user
CreateUserPut(p) ==
    /\ calls[p].op = "createUser" /\ calls[p].pc = "put"
    /\ table' = PutCommand(table, calls[p].sent[2].item)
    /\ calls' = [calls EXCEPT ![p].pc = "done", ![p].acked = 2,
                              ![p].result = Ok({entityWithMeta(calls[p].args.entity, calls[p].now)})]
    /\ UNCHANGED <<clock, nextId>>

\* POST /register: a registration is served when no other call is in flight
CallCreateUser(p, userData) == AllIdle /\ StartCreateUser(p, userData)

NextUsers ==
    \/ \E userData \in UserData : CallCreateUser("p1", userData)
    \/ \E p \in Procs : CreateUserScan(p)
    \/ \E p \in Procs : CreateUserHash(p)
    \/ \E p \in Procs : CreateUserPut(p)
    \/ \E p \in Procs : Return(p)
    \/ Tick

SpecUsers == Init /\ [][NextUsers]_vars

\* ------------------------------------------------- PUT /:id of a prenup
\* of the PrenupStatus values, the first and the last
PrenupStatus == {"DRAFT", "EXECUTED"}

\* two users have registered; the first has created a prenup (createPrenup),
\* and the second is either a stranger to it or its partner (addPartnerToPrenup)
Creator == [id |-> 1, entityType |-> "USER", email |-> "a@x.com", firstName |-> "Ann"]
Other == [id |-> 2, entityType |-> "USER", email |-> "b@x.com", firstName |-> "Bob"]

\* createPrenupEntity({ title, status: PrenupStatus.DRAFT, createdBy, createdByEmail })
DraftPrenup ==
    [id |-> 3, entityType |-> "PRENUP", title |-> "T", status |-> "DRAFT",
     createdBy |-> Creator.id, createdByEmail |-> Creator.email]

UnpartneredTable ==
    PutCommand(PutCommand(PutCommand(EmptyTable, createItem(Creator, 0)),
                          createItem(Other, 0)),
               createItem(DraftPrenup, 0))

\* updatePrenup(prenupId, { partnerId, partnerEmail: partner.email })
PartneredTable ==
    LET pk == createPartitionKey("PRENUP", DraftPrenup.id)
        current == entityWithMeta(DraftPrenup, 0)
        updates == [partnerId |-> Other.id, partnerEmail |-> Other.email]
    IN
    PutCommand(PutCommand(UnpartneredTable, archiveItem(pk, current)),
               updatedItem(pk, current, updates, 0))

InitPut ==
    /\ table \in {UnpartneredTable, PartneredTable}
    /\ clock = 0
    /\ nextId = 4
    /\ calls = [p \in Procs |-> Idle]

\* the bodies updatePrenupSchema lets through, one field each
PutValues ==
    {[f \in {"title"} |-> "S"]} \cup {[f \in {"status"} |-> st] : st \in PrenupStatus}

\* the id a request names
PutIds == {DraftPrenup.id}

\* prenup.createdBy === userId || prenup.partnerId === userId
userHasAccessToPrenup(t, prenupId, userId) ==
    LET prenup == getById(t, "PRENUP", prenupId, LATEST_VERSION) IN
    IF prenup = {} THEN FALSE
    ELSE \E e \in prenup :
           \/ e.createdBy = userId
           \/ "partnerId" \in DOMAIN e /\ e.partnerId = userId

GetV0(id) == [cmd |-> "Get", key |-> <<createPartitionKey("PRENUP", id), LATEST_VERSION>>]

\* the handler runs up to its first await: userHasAccessToPrenup's getPrenupById
StartPut(p, id, userId, value) ==
    /\ calls[p].op = "idle"
    /\ calls' = [calls EXCEPT ![p] =
                    [Idle EXCEPT !.op = "putPrenup", !.pc = "access", !.before = table,
                                 !.args = [entityType |-> "PRENUP", id |-> id,
                                           userId |-> userId, updates |-> value],
                                 !.sent = <<GetV0(id)>>]]
    /\ UNCHANGED <<table, clock, nextId>>

\* const hasAccess = await prenupService.userHasAccessToPrenup(id, req.user!.id)
PutAccess(p) ==
    /\ calls[p].op = "putPrenup" /\ calls[p].pc = "access"
    /\ IF userHasAccessToPrenup(table, calls[p].args.id, calls[p].args.userId)
       THEN calls' = [calls EXCEPT ![p].pc = "load", ![p].acked = 1,
                                   ![p].sent = Append(@, GetV0(calls[p].args.id))]
       ELSE calls' = [calls EXCEPT ![p].pc = "done", ![p].acked = 1,
                                   ![p].result = Err(<<"Prenup not found", 404>>)]
    /\ UNCHANGED <<table, clock, nextId>>

\* const prenup = await prenupService.getPrenupById(id), the two checks on it,
\* and updatePrenup -> dynamodbService.update up to its getById
PutLoad(p) ==
    /\ calls[p].op = "putPrenup" /\ calls[p].pc = "load"
    /\ LET prenup == getById(table, "PRENUP", calls[p].args.id, LATEST_VERSION) IN
       IF prenup = {}
       THEN calls' = [calls EXCEPT ![p].pc = "done", ![p].acked = 2,
                                   ![p].result = Err(<<"Prenup not found", 404>>)]
       ELSE IF (CHOOSE e \in prenup : TRUE).status = "EXECUTED"
       THEN calls' = [calls EXCEPT ![p].pc = "done", ![p].acked = 2,
                                   ![p].result = Err(<<"Cannot modify executed prenup", 400>>)]
       ELSE calls' = [calls EXCEPT ![p].pc = "get", ![p].acked = 2,
                                   ![p].sent = Append(@, GetV0(calls[p].args.id))]
    /\ UNCHANGED <<table, clock, nextId>>

\* update: const current = await this.getById(entityType, id)
PutUpdateGet(p) ==
    /\ calls[p].op = "putPrenup" /\ calls[p].pc = "get"
    /\ LET pk == createPartitionKey("PRENUP", calls[p].args.id)
           current == getById(table, "PRENUP", calls[p].args.id, LATEST_VERSION)
       IN
       IF current = {}
       THEN calls' = [calls EXCEPT ![p].pc = "done", ![p].acked = 3,
                                   ![p].result = Err(<<"Entity ", pk, " not found">>)]
       ELSE calls' = [calls EXCEPT ![p].pc = "archive", ![p].acked = 3,
                         ![p].current = current, ![p].now = clock,
                         ![p].sent = Append(@, [cmd |-> "Put",
                              item |-> archiveItem(pk, CHOOSE c \in current : TRUE)])]
    /\ UNCHANGED <<table, clock, nextId>>

\* update: await this.archiveVersion(pk, current)
PutUpdateArchive(p) ==
    /\ calls[p].op = "putPrenup" /\ calls[p].pc = "archive"
    /\ LET pk == createPartitionKey("PRENUP", calls[p].args.id)
           cur == CHOOSE c \in calls[p].current : TRUE
       IN
       /\ table' = PutCommand(table, calls[p].sent[4].item)
       /\ calls' = [calls EXCEPT ![p].pc = "put", ![p].acked = 4,
                       ![p].sent = Append(@, [cmd |-> "Put",
                            item |-> updatedItem(pk, cur, calls[p].args.updates, calls[p].now)])]
    /\ UNCHANGED <<clock, nextId>>

\* update: the put of the new V0; then getPrenupWithUsers sends its first get
PutUpdatePut(p) ==
    /\ calls[p].op = "putPrenup" /\ calls[p].pc = "put"
    /\ table' = PutCommand(table, calls[p].sent[5].item)
    /\ calls' = [calls EXCEPT ![p].pc = "respond", ![p].acked = 5,
                              ![p].sent = Append(@, GetV0(calls[p].args.id))]
    /\ UNCHANGED <<clock, nextId>>

\* getPrenupWithUsers reads the prenup (and its users) and the response is sent
PutRespond(p) ==
    /\ calls[p].op = "putPrenup" /\ calls[p].pc = "respond"
    /\ calls' = [calls EXCEPT ![p].pc = "done", ![p].acked = 6,
                              ![p].result = Ok(getById(table, "PRENUP", calls[p].args.id,
                                                       LATEST_VERSION))]
    /\ UNCHANGED <<table, clock, nextId>>

\* requests are served as they come in: the handlers of two requests
\* interleave at their awaits, within one reading of the clock
NextPut ==
    \/ \E p \in Procs : \E id \in PutIds : \E userId \in {Creator.id, Other.id} :
         \E value \in PutValues : StartPut(p, id, userId, value)
    \/ \E p \in Procs : PutAccess(p)
    \/ \E p \in Procs : PutLoad(p)
    \/ \E p \in Procs : PutUpdateGet(p)
    \/ \E p \in Procs : PutUpdateArchive(p)
    \/ \E p \in Procs : PutUpdatePut(p)
    \/ \E p \in Procs : PutRespond(p)
    \/ \E p \in Procs : Return(p)

SpecPut == InitPut /\ [][NextPut]_vars

\* ------------------------------------------- delete overlapping an update
\* one request deletes the registered user while another updates it, with or
\* without a new version; the steps of the two interleave freely, and each of
\* the two requests makes its one call
NextOverlap ==
    \/ \E id \in Ids : StartDelete("p1", "USER", id)
    \/ \E id \in Ids : \E updates \in OneFieldPayloads : \E createNewVersion \in BOOLEAN :
         StartUpdate("p2", "USER", id, updates, createNewVersion)
    \/ \E p \in Procs : UpdateGet(p)
    \/ \E p \in Procs : UpdateArchive(p)
    \/ \E p \in Procs : UpdatePut(p)
    \/ \E p \in Procs : UpdateInPlace(p)
    \/ \E p \in Procs : DeleteQuery(p)
    \/ \E p \in Procs : DeleteNext(p)

SpecOverlap == InitConc /\ [][NextOverlap]_vars

\* ------------------------------------------------ concurrent registrations
\* two POST /register requests in flight: createUser starts whether or not
\* another call is in flight
NextUsersConc ==
    \/ \E p \in Procs : \E userData \in UserData : StartCreateUser(p, userData)
    \/ \E p \in Procs : CreateUserScan(p)
    \/ \E p \in Procs : CreateUserHash(p)
    \/ \E p \in Procs : CreateUserPut(p)
    \/ \E p \in Procs : Return(p)

SpecUsersConc == Init /\ [][NextUsersConc]_vars

\* --------------------------------------------- partners and invitations
MaxInviteIds == 4   \* in this specification the ids run up to MaxInviteIds
MaxInviteTime == 8  \* and the clock, counted in days, up to MaxInviteTime

\* expiresAt.setDate(expiresAt.getDate() + 7)
InvitationDays == 7

\* the waits between requests: a lifetime of an invitation, or a day more
Waits == {InvitationDays, InvitationDays + 1}

InvitationStatus == {"PENDING", "ACCEPTED", "EXPIRED", "CANCELLED"}

UserIds == {Creator.id, Other.id}

\* the addresses an invitation may go to: the two users' and one no user has
InviteEmails == {Creator.email, Other.email, "c@x.com"}

\* the ids and tokens a request may name
InviteIds == DraftPrenup.id..MaxInviteIds

\* two users have registered and the first has created a prenup
InitInvite ==
    /\ table = UnpartneredTable
    /\ clock = 0
    /\ nextId = 4
    /\ calls = [p \in Procs |-> Idle]

Only(found) == CHOOSE e \in found : TRUE

getPrenupById(t, id) == getById(t, "PRENUP", id, LATEST_VERSION)

getUserById(t, id) == getById(t, "USER", id, LATEST_VERSION)

\* throw new Error(message): the call ends and its caller sees the error
Throw(p, message) ==
    [calls EXCEPT ![p].pc = "done", ![p].result = Err(<<message>>)]

\* crypto.randomBytes(32).toString('hex'): a value no other invitation carries
randomToken == nextId

\* result.items.find(inv => inv.token === token)
findInvitation(t, token) ==
    LET found == {i \in queryByEntityType(t, "PARTNER_INVITATION") : i.token = token} IN
    IF found = {} THEN {} ELSE {Only(found)}

\* ------------------------------------------------------------ createPrenup
StartCreatePrenup(p, createdBy) ==
    /\ calls[p].op = "idle"
    /\ nextId <= MaxInviteIds
    /\ calls' = [calls EXCEPT ![p] =
                    [Idle EXCEPT !.op = "createPrenup", !.pc = "creator", !.before = table,
                                 !.args = [createdBy |-> createdBy]]]
    /\ UNCHANGED <<table, clock, nextId>>

\* const creator = await userService.getUserById(prenupData.createdBy), then
\* createPrenupEntity draws the id and dynamodbService.create sends its put
CreatePrenupCreator(p) ==
    /\ calls[p].op = "createPrenup" /\ calls[p].pc = "creator"
    /\ LET creator == getUserById(table, calls[p].args.createdBy) IN
       IF creator = {}
       THEN /\ calls' = Throw(p, "Creator not found")
            /\ UNCHANGED nextId
       ELSE /\ calls' = [calls EXCEPT ![p].pc = "put", ![p].now = clock,
                           ![p].args = Spread(@, [entity |-> createEntity("PRENUP",
                               [title |-> "T", status |-> "DRAFT",
                                createdBy |-> calls[p].args.createdBy,
                                createdByEmail |-> Only(creator).email])])]
            /\ nextId' = nextId + 1
    /\ UNCHANGED <<table, clock>>

\* const prenup = await dynamodbService.create<Prenup>(prenupEntity)
CreatePrenupPut(p) ==
    /\ calls[p].op = "createPrenup" /\ calls[p].pc = "put"
    /\ table' = PutCommand(table, createItem(calls[p].args.entity, calls[p].now))
    /\ calls' = [calls EXCEPT ![p].pc = "done",
                    ![p].result = Ok({entityWithMeta(calls[p].args.entity, calls[p].now)})]
    /\ UNCHANGED <<clock, nextId>>

\* ------------------------------------------------------ addPartnerToPrenup
StartAddPartner(p, prenupId, partnerId) ==
    /\ calls[p].op = "idle"
    /\ calls' = [calls EXCEPT ![p] =
                    [Idle EXCEPT !.op = "addPartnerToPrenup", !.pc = "partnerPrenup",
                                 !.before = table,
                                 !.args = [prenupId |-> prenupId, partnerId |-> partnerId]]]
    /\ UNCHANGED <<table, clock, nextId>>

\* faulty variant: the test of prenup.partnerId is missing
AddPartnerPrenup_NoCheck(p) ==
    /\ calls[p].pc = "partnerPrenup"
    /\ LET prenup == getPrenupById(table, calls[p].args.prenupId) IN
       IF prenup = {}
       THEN calls' = Throw(p, "Prenup not found")
       ELSE calls' = [calls EXCEPT ![p].pc = "partnerUser"]
    /\ UNCHANGED <<table, clock, nextId>>

\* const prenup = await this.getPrenupById(prenupId) and the two checks on it;
\* invitePartner and acceptPartnerInvitation come here through their call of
\* addPartnerToPrenup, and what it throws is what they throw
AddPartnerPrenup(p) ==
    /\ calls[p].pc = "partnerPrenup"
    /\ LET prenup == getPrenupById(table, calls[p].args.prenupId) IN
       IF prenup = {}
       THEN calls' = Throw(p, "Prenup not found")
       ELSE IF "partnerId" \in DOMAIN Only(prenup)
       THEN calls' = Throw(p, "Prenup already has a partner")
       ELSE calls' = [calls EXCEPT ![p].pc = "partnerUser"]
    /\ UNCHANGED <<table, clock, nextId>>

\* const partner = await userService.getUserById(partnerId), then updatePrenup
\* calls dynamodbService.update, which sends its getById
AddPartnerUser(p) ==
    /\ calls[p].pc = "partnerUser"
    /\ LET partner == getUserById(table, calls[p].args.partnerId) IN
       IF partner = {}
       THEN calls' = Throw(p, "Partner not found")
       ELSE calls' = [calls EXCEPT ![p].pc = "partnerGet",
                         ![p].args = Spread(@, [updates |->
                             [partnerId |-> calls[p].args.partnerId,
                              partnerEmail |-> Only(partner).email]])]
    /\ UNCHANGED <<table, clock, nextId>>

\* update: const current = await this.getById(entityType, id)
AddPartnerGet(p) ==
    /\ calls[p].pc = "partnerGet"
    /\ LET pk == createPartitionKey("PRENUP", calls[p].args.prenupId)
           current == getPrenupById(table, calls[p].args.prenupId)
       IN
       IF current = {}
       THEN calls' = [calls EXCEPT ![p].pc = "done",
                                   ![p].result = Err(<<"Entity ", pk, " not found">>)]
       ELSE calls' = [calls EXCEPT ![p].pc = "partnerArchive",
                                   ![p].current = current, ![p].now = clock]
    /\ UNCHANGED <<table, clock, nextId>>

\* update: await this.archiveVersion(pk, current)
AddPartnerArchive(p) ==
    /\ calls[p].pc = "partnerArchive"
    /\ table' = PutCommand(table, archiveItem(createPartitionKey("PRENUP", calls[p].args.prenupId),
                                              Only(calls[p].current)))
    /\ calls' = [calls EXCEPT ![p].pc = "partnerPut"]
    /\ UNCHANGED <<clock, nextId>>

\* what invitePartner returns after a direct assignment
mockInvitation(a, now) ==
    [id |-> "direct-assignment", email |-> a.email, prenupId |-> a.prenupId,
     invitedBy |-> a.invitedBy, token |-> "", status |-> "ACCEPTED", expiresAt |-> now,
     entityType |-> "PARTNER_INVITATION", createdAt |-> now, updatedAt |-> now,
     version |-> LATEST_VERSION]

\* update: the put of the new V0; addPartnerToPrenup returns the updated
\* prenup, invitePartner the mock invitation, and acceptPartnerInvitation goes
\* on to updatePartnerInvitation(invitation.id, { status: ACCEPTED })
AddPartnerPut(p) ==
    /\ calls[p].pc = "partnerPut"
    /\ LET a == calls[p].args
           pk == createPartitionKey("PRENUP", a.prenupId)
           cur == Only(calls[p].current)
           updatedPrenup == updatedEntity(cur, a.updates, calls[p].now)
       IN
       /\ table' = PutCommand(table, updatedItem(pk, cur, a.updates, calls[p].now))
       /\ calls' =
            IF calls[p].op = "acceptPartnerInvitation"
            THEN [calls EXCEPT ![p].pc = "markGet",
                     ![p].args = Spread(@, [mark |-> "ACCEPTED", updatedPrenup |-> updatedPrenup])]
            ELSE IF calls[p].op = "invitePartner"
            THEN [calls EXCEPT ![p].pc = "done", ![p].result = Ok({mockInvitation(a, clock)})]
            ELSE [calls EXCEPT ![p].pc = "done", ![p].result = Ok({updatedPrenup})]
    /\ UNCHANGED <<clock, nextId>>

\* ----------------------------------------------------------- invitePartner
\* invitePartner stores an invitation: the prenup is there, invitedBy created
\* it, it has no partner, and no user has the email
StoresInvitation(t, prenupId, invitedBy, email) ==
    LET prenup == getPrenupById(t, prenupId) IN
    /\ prenup # {}
    /\ Only(prenup).createdBy = invitedBy
    /\ "partnerId" \notin DOMAIN Only(prenup)
    /\ getUserByEmail(t, email) = {}

\* the ids end at MaxInviteIds: a call that would draw one more is not made
StartInvitePartner(p, prenupId, invitedBy, email) ==
    /\ calls[p].op = "idle"
    /\ StoresInvitation(table, prenupId, invitedBy, email) => nextId <= MaxInviteIds
    /\ calls' = [calls EXCEPT ![p] =
                    [Idle EXCEPT !.op = "invitePartner", !.pc = "invitePrenup",
                                 !.before = table,
                                 !.args = [prenupId |-> prenupId, invitedBy |-> invitedBy,
                                           email |-> email]]]
    /\ UNCHANGED <<table, clock, nextId>>

\* faulty variant: the test of prenup.createdBy against invitedBy is missing
InvitePrenup_AnyInviter(p) ==
    /\ calls[p].op = "invitePartner" /\ calls[p].pc = "invitePrenup"
    /\ LET prenup == getPrenupById(table, calls[p].args.prenupId) IN
       IF prenup = {}
       THEN calls' = Throw(p, "Prenup not found")
       ELSE IF "partnerId" \in DOMAIN Only(prenup)
       THEN calls' = Throw(p, "Prenup already has a partner")
       ELSE calls' = [calls EXCEPT ![p].pc = "inviteUser"]
    /\ UNCHANGED <<table, clock, nextId>>

\* const prenup = await this.getPrenupById(prenupId) and the three checks on it
InvitePrenup(p) ==
    /\ calls[p].op = "invitePartner" /\ calls[p].pc = "invitePrenup"
    /\ LET prenup == getPrenupById(table, calls[p].args.prenupId) IN
       IF prenup = {}
       THEN calls' = Throw(p, "Prenup not found")
       ELSE IF Only(prenup).createdBy # calls[p].args.invitedBy
       THEN calls' = Throw(p, "Only prenup creator can invite partners")
       ELSE IF "partnerId" \in DOMAIN Only(prenup)
       THEN calls' = Throw(p, "Prenup already has a partner")
       ELSE calls' = [calls EXCEPT ![p].pc = "inviteUser"]
    /\ UNCHANGED <<table, clock, nextId>>

\* const existingUser = await userService.getUserByEmail(email): with a user
\* the call goes into addPartnerToPrenup(prenupId, existingUser.id), without
\* one it draws the token, sets the expiry and sends getUserById(invitedBy)
InviteUser(p) ==
    /\ calls[p].op = "invitePartner" /\ calls[p].pc = "inviteUser"
    /\ LET existingUser == getUserByEmail(table, calls[p].args.email) IN
       IF existingUser # {}
       THEN calls' = [calls EXCEPT ![p].pc = "partnerPrenup",
                         ![p].args = Spread(@, [partnerId |-> Only(existingUser).id])]
       ELSE calls' = [calls EXCEPT ![p].pc = "inviteInviter",
                         ![p].args = Spread(@, [token |-> randomToken,
                                                expiresAt |-> clock + InvitationDays])]
    /\ UNCHANGED <<table, clock, nextId>>

\* const inviter = await userService.getUserById(invitedBy), then
\* createPartnerInvitationEntity draws the id and create sends its put
InviteInviter(p) ==
    /\ calls[p].op = "invitePartner" /\ calls[p].pc = "inviteInviter"
    /\ LET a == calls[p].args
           inviter == getUserById(table, a.invitedBy)
       IN
       IF inviter = {}
       THEN /\ calls' = Throw(p, "Inviter not found")
            /\ UNCHANGED nextId
       ELSE /\ calls' = [calls EXCEPT ![p].pc = "invitePut", ![p].now = clock,
                           ![p].args = Spread(@, [entity |-> createEntity("PARTNER_INVITATION",
                               [email |-> a.email, prenupId |-> a.prenupId,
                                invitedBy |-> a.invitedBy, token |-> a.token,
                                status |-> "PENDING", expiresAt |-> a.expiresAt,
                                invitedByEmail |-> Only(inviter).email])])]
            /\ nextId' = nextId + 1
    /\ UNCHANGED <<table, clock>>

\* const invitation = await dynamodbService.create<PartnerInvitation>(...)
InvitePut(p) ==
    /\ calls[p].op = "invitePartner" /\ calls[p].pc = "invitePut"
    /\ table' = PutCommand(table, createItem(calls[p].args.entity, calls[p].now))
    /\ calls' = [calls EXCEPT ![p].pc = "done",
                    ![p].result = Ok({entityWithMeta(calls[p].args.entity, calls[p].now)})]
    /\ UNCHANGED <<clock, nextId>>

\* ------------------------- getPartnerInvitation, acceptPartnerInvitation
StartGetInvitation(p, token) ==
    /\ calls[p].op = "idle"
    /\ calls' = [calls EXCEPT ![p] =
                    [Idle EXCEPT !.op = "getPartnerInvitation", !.pc = "lookup",
                                 !.before = table, !.args = [token |-> token]]]
    /\ UNCHANGED <<table, clock, nextId>>

\* the call runs up to the scan of its getPartnerInvitation(token)
StartAccept(p, token, acceptingUserId) ==
    /\ calls[p].op = "idle"
    /\ calls' = [calls EXCEPT ![p] =
                    [Idle EXCEPT !.op = "acceptPartnerInvitation", !.pc = "lookup",
                                 !.before = table,
                                 !.args = [token |-> token, partnerId |-> acceptingUserId]]]
    /\ UNCHANGED <<table, clock, nextId>>

\* getPartnerInvitation returns null: to its own caller, or to
\* acceptPartnerInvitation, which throws
NoInvitation(p) ==
    IF calls[p].op = "acceptPartnerInvitation"
    THEN Throw(p, "Invalid or expired invitation")
    ELSE [calls EXCEPT ![p].pc = "done", ![p].result = Ok({})]

\* faulty variant: the test of expiresAt against new Date() is missing
InvitationLookup_NoExpiry(p) ==
    /\ calls[p].pc = "lookup"
    /\ LET invitation == findInvitation(table, calls[p].args.token)
           At(c) == [c EXCEPT ![p].args = Spread(@, [at |-> clock])]
       IN
       IF invitation = {}
       THEN calls' = At(NoInvitation(p))
       ELSE IF calls[p].op = "getPartnerInvitation"
       THEN calls' = At([calls EXCEPT ![p].pc = "done", ![p].result = Ok(invitation)])
       ELSE IF Only(invitation).status # "PENDING"
       THEN calls' = At(Throw(p, "Invitation has already been processed"))
       ELSE calls' = At([calls EXCEPT ![p].pc = "partnerPrenup",
                            ![p].args = Spread(@, [invitation |-> Only(invitation),
                                                   prenupId |-> Only(invitation).prenupId])])
    /\ UNCHANGED <<table, clock, nextId>>

\* the scan has come back: find by token, the test of expiresAt against
\* new Date() (at keeps what it read), and in acceptPartnerInvitation the
\* test of the status
InvitationLookup(p) ==
    /\ calls[p].pc = "lookup"
    /\ LET invitation == findInvitation(table, calls[p].args.token)
           At(c) == [c EXCEPT ![p].args = Spread(@, [at |-> clock])]
       IN
       IF invitation = {}
       THEN calls' = At(NoInvitation(p))
       ELSE IF Only(invitation).expiresAt < clock
       THEN calls' = At([calls EXCEPT ![p].pc = "markGet",
                            ![p].args = Spread(@, [invitation |-> Only(invitation),
                                                   mark |-> "EXPIRED"])])
       ELSE IF calls[p].op = "getPartnerInvitation"
       THEN calls' = At([calls EXCEPT ![p].pc = "done", ![p].result = Ok(invitation)])
       ELSE IF Only(invitation).status # "PENDING"
       THEN calls' = At(Throw(p, "Invitation has already been processed"))
       ELSE calls' = At([calls EXCEPT ![p].pc = "partnerPrenup",
                            ![p].args = Spread(@, [invitation |-> Only(invitation),
                                                   prenupId |-> Only(invitation).prenupId])])
    /\ UNCHANGED <<table, clock, nextId>>

\* updatePartnerInvitation(invitation.id, { status }) -> update(..., false):
\* const current = await this.getById(entityType, id); what it throws is
\* caught inside getPartnerInvitation and not inside acceptPartnerInvitation
MarkGet(p) ==
    /\ calls[p].pc = "markGet"
    /\ LET pk == createPartitionKey("PARTNER_INVITATION", calls[p].args.invitation.id)
           current == getById(table, "PARTNER_INVITATION", calls[p].args.invitation.id,
                              LATEST_VERSION)
       IN
       IF current # {}
       THEN calls' = [calls EXCEPT ![p].pc = "markUpdate", ![p].now = clock]
       ELSE IF calls[p].args.mark = "EXPIRED"
       THEN calls' = NoInvitation(p)
       ELSE calls' = [calls EXCEPT ![p].pc = "done",
                                   ![p].result = Err(<<"Entity ", pk, " not found">>)]
    /\ UNCHANGED <<table, clock, nextId>>

\* update: await docClient.send(new UpdateCommand(params)); after marking
\* EXPIRED getPartnerInvitation returns null, after marking ACCEPTED
\* acceptPartnerInvitation returns the updated prenup
MarkUpdate(p) ==
    /\ calls[p].pc = "markUpdate"
    /\ LET a == calls[p].args
           key == <<createPartitionKey("PARTNER_INVITATION", a.invitation.id), LATEST_VERSION>>
       IN
       /\ table' = UpdateCommand(table, key,
                                 buildUpdateExpression([status |-> a.mark], calls[p].now))
       /\ calls' = IF a.mark = "EXPIRED"
                   THEN NoInvitation(p)
                   ELSE [calls EXCEPT ![p].pc = "done", ![p].result = Ok({a.updatedPrenup})]
    /\ UNCHANGED <<clock, nextId>>

\* days pass between the requests and while one is served
Wait ==
    /\ \E d \in Waits : clock + d <= MaxInviteTime /\ clock' = clock + d
    /\ UNCHANGED <<table, nextId, calls>>

\* the service's calls, one at a time: a single caller makes them
NextInvite ==
    \/ \E createdBy \in UserIds : StartCreatePrenup("p1", createdBy)
    \/ \E prenupId \in InviteIds : \E partnerId \in UserIds :
         StartAddPartner("p1", prenupId, partnerId)
    \/ \E prenupId \in InviteIds : \E invitedBy \in UserIds : \E email \in InviteEmails :
         StartInvitePartner("p1", prenupId, invitedBy, email)
    \/ \E token \in InviteIds : StartGetInvitation("p1", token)
    \/ \E token \in InviteIds : \E acceptingUserId \in UserIds :
         StartAccept("p1", token, acceptingUserId)
    \/ \E p \in Procs : CreatePrenupCreator(p)
    \/ \E p \in Procs : CreatePrenupPut(p)
    \/ \E p \in Procs : AddPartnerPrenup(p)
    \/ \E p \in Procs : AddPartnerUser(p)
    \/ \E p \in Procs : AddPartnerGet(p)
    \/ \E p \in Procs : AddPartnerArchive(p)
    \/ \E p \in Procs : AddPartnerPut(p)
    \/ \E p \in Procs : InvitePrenup(p)
    \/ \E p \in Procs : InviteUser(p)
    \/ \E p \in Procs : InviteInviter(p)
    \/ \E p \in Procs : InvitePut(p)
    \/ \E p \in Procs : InvitationLookup(p)
    \/ \E p \in Procs : MarkGet(p)
    \/ \E p \in Procs : MarkUpdate(p)
    \/ \E p \in Procs : Return(p)
    \/ Wait

SpecInvite == InitInvite /\ [][NextInvite]_vars

\* --------------------- FinancialService.createOrUpdateFinancialDisclosure
\* what a disclosure lists: of each asset its value, of each debt its amount
AssetLists == {<<>>, <<2, 1>>}
DebtLists == {<<1>>}

\* values.reduce((sum, v) => sum + v, 0)
RECURSIVE SumOf(_)
SumOf(values) == IF values = <<>> THEN 0 ELSE Head(values) + SumOf(Tail(values))

\* the prenup of the two users, and an id no prenup has
DisclosedPrenupIds == {DraftPrenup.id, DraftPrenup.id + 1}

\* result.items.find(d => d.prenupId === prenupId && d.userId === userId) || null
getFinancialDisclosureByPrenupAndUser(t, prenupId, userId) ==
    LET found == {d \in queryByEntityType(t, "FINANCIAL_DISCLOSURE") :
                    d.prenupId = prenupId /\ d.userId = userId}
    IN
    IF found = {} THEN {} ELSE {Only(found)}

\* the call runs up to the getPrenupById of userHasAccessToPrenup
StartDisclose(p, prenupId, userId, assets, debts) ==
    /\ calls[p].op = "idle"
    /\ calls' = [calls EXCEPT ![p] =
                    [Idle EXCEPT !.op = "createOrUpdateFinancialDisclosure", !.pc = "access",
                                 !.before = table,
                                 !.args = [prenupId |-> prenupId, userId |-> userId,
                                           assets |-> assets, debts |-> debts,
                                           income |-> "I"]]]
    /\ UNCHANGED <<table, clock, nextId>>

\* const hasAccess = await prenupService.userHasAccessToPrenup(prenupId, userId)
DiscloseAccess(p) ==
    /\ calls[p].op = "createOrUpdateFinancialDisclosure" /\ calls[p].pc = "access"
    /\ IF userHasAccessToPrenup(table, calls[p].args.prenupId, calls[p].args.userId)
       THEN calls' = [calls EXCEPT ![p].pc = "user"]
       ELSE calls' = Throw(p, "Access denied to prenup")
    /\ UNCHANGED <<table, clock, nextId>>

\* const user = await userService.getUserById(data.userId), the net worth,
\* and the scan of getFinancialDisclosureByPrenupAndUser is sent
DiscloseUser(p) ==
    /\ calls[p].op = "createOrUpdateFinancialDisclosure" /\ calls[p].pc = "user"
    /\ LET a == calls[p].args
           user == getUserById(table, a.userId)
       IN
       IF user = {}
       THEN calls' = Throw(p, "User not found")
       ELSE calls' = [calls EXCEPT ![p].pc = "scan",
                         ![p].args = Spread(@, [netWorth |-> SumOf(a.assets) - SumOf(a.debts),
                                                userEmail |-> Only(user).email])]
    /\ UNCHANGED <<table, clock, nextId>>

\* faulty variant: the disclosure found is ignored and a new one is created
DiscloseScan_AlwaysCreates(p) ==
    /\ calls[p].op = "createOrUpdateFinancialDisclosure" /\ calls[p].pc = "scan"
    /\ LET a == calls[p].args IN
       /\ calls' = [calls EXCEPT ![p].pc = "put", ![p].now = clock,
                      ![p].args = Spread(@, [entity |-> createEntity("FINANCIAL_DISCLOSURE",
                          [prenupId |-> a.prenupId, userId |-> a.userId,
                           assets |-> a.assets, debts |-> a.debts, income |-> a.income,
                           netWorth |-> a.netWorth, userEmail |-> a.userEmail])])]
       /\ nextId' = nextId + 1
    /\ UNCHANGED <<table, clock>>

\* const existingDisclosure = await this.getFinancialDisclosureByPrenupAndUser(...):
\* with one the call goes into dynamodbService.update(..., true) up to its
\* getById, without one createFinancialDisclosureEntity draws the id and
\* dynamodbService.create sends its put
DiscloseScan(p) ==
    /\ calls[p].op = "createOrUpdateFinancialDisclosure" /\ calls[p].pc = "scan"
    /\ LET a == calls[p].args
           existingDisclosure == getFinancialDisclosureByPrenupAndUser(table, a.prenupId, a.userId)
       IN
       IF existingDisclosure # {}
       THEN /\ calls' = [calls EXCEPT ![p].pc = "updateGet",
                           ![p].args = Spread(@, [id |-> Only(existingDisclosure).id,
                               updates |-> [assets |-> a.assets, debts |-> a.debts,
                                            income |-> a.income, netWorth |-> a.netWorth,
                                            userEmail |-> a.userEmail]])]
            /\ UNCHANGED nextId
       ELSE /\ calls' = [calls EXCEPT ![p].pc = "put", ![p].now = clock,
                           ![p].args = Spread(@, [entity |-> createEntity("FINANCIAL_DISCLOSURE",
                               [prenupId |-> a.prenupId, userId |-> a.userId,
                                assets |-> a.assets, debts |-> a.debts, income |-> a.income,
                                netWorth |-> a.netWorth, userEmail |-> a.userEmail])])]
            /\ nextId' = nextId + 1
    /\ UNCHANGED <<table, clock>>

\* disclosure = await dynamodbService.create<FinancialDisclosure>(disclosureEntity)
DisclosePut(p) ==
    /\ calls[p].op = "createOrUpdateFinancialDisclosure" /\ calls[p].pc = "put"
    /\ table' = PutCommand(table, createItem(calls[p].args.entity, calls[p].now))
    /\ calls' = [calls EXCEPT ![p].pc = "done",
                    ![p].result = Ok({entityWithMeta(calls[p].args.entity, calls[p].now)})]
    /\ UNCHANGED <<clock, nextId>>

\* update: const current = await this.getById(entityType, id)
DiscloseUpdateGet(p) ==
    /\ calls[p].op = "createOrUpdateFinancialDisclosure" /\ calls[p].pc = "updateGet"
    /\ LET pk == createPartitionKey("FINANCIAL_DISCLOSURE", calls[p].args.id)
           current == getById(table, "FINANCIAL_DISCLOSURE", calls[p].args.id, LATEST_VERSION)
       IN
       IF current = {}
       THEN calls' = [calls EXCEPT ![p].pc = "done",
                                   ![p].result = Err(<<"Entity ", pk, " not found">>)]
       ELSE calls' = [calls EXCEPT ![p].pc = "updateArchive",
                                   ![p].current = current, ![p].now = clock]
    /\ UNCHANGED <<table, clock, nextId>>

\* update: await this.archiveVersion(pk, current)
DiscloseUpdateArchive(p) ==
    /\ calls[p].op = "createOrUpdateFinancialDisclosure" /\ calls[p].pc = "updateArchive"
    /\ table' = PutCommand(table,
                    archiveItem(createPartitionKey("FINANCIAL_DISCLOSURE", calls[p].args.id),
                                Only(calls[p].current)))
    /\ calls' = [calls EXCEPT ![p].pc = "updatePut"]
    /\ UNCHANGED <<clock, nextId>>

\* update: the put of the new V0; the updated disclosure is returned
DiscloseUpdatePut(p) ==
    /\ calls[p].op = "createOrUpdateFinancialDisclosure" /\ calls[p].pc = "updatePut"
    /\ LET a == calls[p].args
           pk == createPartitionKey("FINANCIAL_DISCLOSURE", a.id)
           cur == Only(calls[p].current)
       IN
       /\ table' = PutCommand(table, updatedItem(pk, cur, a.updates, calls[p].now))
       /\ calls' = [calls EXCEPT ![p].pc = "done",
                       ![p].result = Ok({updatedEntity(cur, a.updates, calls[p].now)})]
    /\ UNCHANGED <<clock, nextId>>

\* the disclosures of the two users, filed one call at a time, on a prenup
\* the second user is or is not the partner of
NextFin ==
    \/ \E prenupId \in DisclosedPrenupIds : \E userId \in UserIds :
         \E assets \in AssetLists : \E debts \in DebtLists :
           StartDisclose("p1", prenupId, userId, assets, debts)
    \/ \E p \in Procs : DiscloseAccess(p)
    \/ \E p \in Procs : DiscloseUser(p)
    \/ \E p \in Procs : DiscloseScan(p)
    \/ \E p \in Procs : DisclosePut(p)
    \/ \E p \in Procs : DiscloseUpdateGet(p)
    \/ \E p \in Procs : DiscloseUpdateArchive(p)
    \/ \E p \in Procs : DiscloseUpdatePut(p)
    \/ \E p \in Procs : Return(p)
    \/ Tick

SpecFin == InitPut /\ [][NextFin]_vars

\* ------------------------------------------------------------ properties
Done(p, op) == calls[p].op = op /\ calls[p].pc = "done"

\* no call is in flight: every call made so far has run to completion
Quiescent == \A q \in Procs : calls[q].pc \in {"idle", "done"}

PKOf(p) == createPartitionKey(calls[p].args.entityType, calls[p].args.id)

\* the sort keys stored under a partition key
VersionsOf(t, pk) == {k[2] : k \in {x \in DOMAIN t : x[1] = pk}}

ArchivedOf(t, pk) == VersionsOf(t, pk) \ {LATEST_VERSION}

\* a and b carry the same fields with the same values, the version tag aside
SameButVersion(a, b) ==
    /\ DOMAIN a = DOMAIN b
    /\ \A f \in DOMAIN a \ {"version"} : a[f] = b[f]

VersionedUpdateDone(p) ==
    /\ Done(p, "update") /\ calls[p].args.createNewVersion
    /\ calls[p].result.status = "ok"

\* the V0 entity the finished update of p found when it was called
PriorOf(p) ==
    CHOOSE e \in getById(calls[p].before, calls[p].args.entityType, calls[p].args.id,
                         LATEST_VERSION) : TRUE

\* C1: each versioned update adds one new archived version, the next in
\* number: an update that found the archived records V1..Vk leaves V1..V(k+1).
\* From a freshly created entity, which has none, N versioned updates then
\* leave exactly V1..VN.
C1_NUpdatesLeaveV1toVN ==
    \A p \in Procs :
        VersionedUpdateDone(p) =>
            LET found == ArchivedOf(calls[p].before, PKOf(p))
                k == Cardinality(found)
            IN
            found = {createVersionKey({n}) : n \in 1..k} =>
                ArchivedOf(table, PKOf(p)) = {createVersionKey({n}) : n \in 1..(k + 1)}

\* C2: a record stored under an archive sort key (V1, V2, ...) is never
\* changed by a later step of a create or an update: it keeps its content for
\* as long as it is stored.
C2_ArchivedVersionsImmutable ==
    [][\A k \in DOMAIN table :
          (k[2] # LATEST_VERSION /\ k \in DOMAIN table') => table'[k] = table[k]]_vars

\* C3: when no call is in flight, every entity that has any stored record has
\* exactly one record with sort key V0, and getById returns that record (without
\* its key attributes).
C3_ExactlyOneCurrent ==
    Quiescent =>
        \A pk \in PKs :
            VersionsOf(table, pk) # {} =>
                /\ Cardinality({k \in DOMAIN table : k[1] = pk /\ k[2] = LATEST_VERSION}) = 1
                /\ \E e \in getById(table, pk[1], pk[2], LATEST_VERSION) :
                     /\ \A f \in DOMAIN e : e[f] = table[<<pk, LATEST_VERSION>>][f]
                     /\ e.version = LATEST_VERSION
                     /\ createPartitionKey(e.entityType, e.id) = pk

C3_Witness ==
    \E p \in Procs :
        /\ VersionedUpdateDone(p)
        /\ VersionsOf(table, PKOf(p)) = {"V0", "V1"}

\* C4 as stated: after a versioned update, getById returns the prior V0 fields
\* overlaid with the payload, with version V0, and some archived record equals
\* the prior V0 entity apart from its version tag.
C4_MergedAndArchived ==
    \A p \in Procs :
        VersionedUpdateDone(p) =>
            LET prior == PriorOf(p)
                updates == calls[p].args.updates
            IN
            /\ \E e \in getById(table, calls[p].args.entityType, calls[p].args.id,
                                LATEST_VERSION) :
                 /\ DOMAIN e = DOMAIN prior \cup DOMAIN updates
                 /\ \A f \in DOMAIN e :
                      e[f] = IF f = "version" THEN LATEST_VERSION
                             ELSE IF f \in DOMAIN updates THEN updates[f]
                             ELSE prior[f]
            /\ \E v \in ArchivedOf(table, PKOf(p)) :
                 \E a \in getById(table, calls[p].args.entityType, calls[p].args.id, v) :
                     SameButVersion(a, prior) /\ a.version = v

\* C4 amended: as C4, except that updatedAt of the new V0 is the time of the
\* update rather than the prior or the payload's value.
C4_MergedStampedAndArchived ==
    \A p \in Procs :
        VersionedUpdateDone(p) =>
            LET prior == PriorOf(p)
                updates == calls[p].args.updates
            IN
            /\ \E e \in getById(table, calls[p].args.entityType, calls[p].args.id,
                                LATEST_VERSION) :
                 /\ DOMAIN e = DOMAIN prior \cup DOMAIN updates
                 /\ \A f \in DOMAIN e :
                      e[f] = IF f = "version" THEN LATEST_VERSION
                             ELSE IF f = "updatedAt" THEN calls[p].now
                             ELSE IF f \in DOMAIN updates THEN updates[f]
                             ELSE prior[f]
                 /\ prior.updatedAt <= e.updatedAt /\ e.updatedAt <= clock
            /\ \E v \in ArchivedOf(table, PKOf(p)) :
                 \E a \in getById(table, calls[p].args.entityType, calls[p].args.id, v) :
                     SameButVersion(a, prior) /\ a.version = v

\* a versioned update that changed a field and left another alone has finished
C4_Witness ==
    \E p \in Procs :
        /\ VersionedUpdateDone(p)
        /\ DOMAIN calls[p].args.updates = {"firstName"}
        /\ calls[p].args.updates.firstName # PriorOf(p).firstName
        /\ PriorOf(p).updatedAt < calls[p].now

\* C5: after a versioned update has completed, the record at sort key V1 holds
\* the V0 content the update found, the version tag aside.
C5_V1HoldsSuperseded ==
    \A p \in Procs :
        VersionedUpdateDone(p) =>
            \E a \in getById(table, calls[p].args.entityType, calls[p].args.id, "V1") :
                SameButVersion(a, PriorOf(p)) /\ a.version = "V1"

\* the second versioned update of an entity has finished, and it superseded a
\* state other than the one the first update had archived
C5_Witness ==
    \E p \in Procs :
        /\ VersionedUpdateDone(p)
        /\ "V1" \in ArchivedOf(calls[p].before, PKOf(p))
        /\ \E a \in getById(calls[p].before, calls[p].args.entityType, calls[p].args.id, "V1") :
              ~SameButVersion(a, PriorOf(p))
\* C6: within a versioned update the commands go out in the order get V0, put
\* of the archive record, put of V0, each one only after the one before it has
\* completed; the archive record carries the content that was read, and V0
\* keeps that content until the archive record is stored.
C6_ReadArchiveOverwrite ==
    \A p \in Procs :
        (calls[p].op = "update" /\ calls[p].args.createNewVersion) =>
            LET c == calls[p]
                n == Len(c.sent)
                v0 == <<PKOf(p), LATEST_VERSION>>
            IN
            /\ n <= 3 /\ n <= c.acked + 1
            /\ c.sent[1].cmd = "Get" /\ c.sent[1].key = v0
            /\ n >= 2 =>
                 /\ c.sent[2].cmd = "Put"
                 /\ c.sent[2].item.PK = PKOf(p) /\ c.sent[2].item.SK # LATEST_VERSION
                 /\ SameButVersion(StripKeys(c.sent[2].item), PriorOf(p))
            /\ n = 3 =>
                 /\ c.sent[3].cmd = "Put" /\ ItemKey(c.sent[3].item) = v0
                 /\ c.acked >= 2
                 /\ ItemKey(c.sent[2].item) \in DOMAIN table
                 /\ table[ItemKey(c.sent[2].item)] = c.sent[2].item
            /\ (n >= 2 /\ c.acked < 3) => table[v0] = c.before[v0]
            /\ c.acked = 3 => table[v0] = c.sent[3].item

\* the archive record is stored and the put of a changed V0 is still to land
C6_Witness ==
    \E p \in Procs :
        /\ calls[p].op = "update" /\ calls[p].pc = "put"
        /\ DOMAIN calls[p].args.updates = {"firstName"}
        /\ calls[p].args.updates.firstName # PriorOf(p).firstName
        /\ table[<<PKOf(p), "V1">>].firstName = PriorOf(p).firstName
        /\ table[<<PKOf(p), "V0">>].firstName = PriorOf(p).firstName

\* C7: after create(e) has completed, getById returns e plus createdAt and
\* updatedAt, both the time of the create, and version V0, without PK or SK,
\* and the entity has no archived version.
C7_CreateThenGet ==
    \A p \in Procs :
        Done(p, "create") =>
            LET e == calls[p].args.entity IN
            /\ \E r \in getById(table, e.entityType, e.id, LATEST_VERSION) :
                 /\ DOMAIN r = DOMAIN e \cup {"createdAt", "updatedAt", "version"}
                 /\ \A f \in DOMAIN e : r[f] = e[f]
                 /\ r.createdAt = calls[p].now /\ r.updatedAt = r.createdAt
                 /\ r.createdAt <= clock
                 /\ r.version = LATEST_VERSION
                 /\ "PK" \notin DOMAIN r /\ "SK" \notin DOMAIN r
            /\ ArchivedOf(table, createPartitionKey(e.entityType, e.id)) = {}

C7_Witness ==
    \E p \in Procs :
        /\ Done(p, "create")
        /\ calls[p].args.entity.entityType = "USER"
        /\ calls[p].args.entity.firstName = "Bob"
        /\ calls[p].now = 1

\* C8: after delete has completed without an error, getById returns null for
\* every version the entity had when delete was called.
C8_DeleteRemovesAllVersions ==
    \A p \in Procs :
        (Done(p, "delete") /\ calls[p].result.status = "ok") =>
            \A v \in VersionsOf(calls[p].before, PKOf(p)) :
                getById(table, calls[p].args.entityType, calls[p].args.id, v) = {}

C8_Witness ==
    \E p \in Procs :
        /\ Done(p, "delete") /\ calls[p].result.status = "ok"
        /\ VersionsOf(calls[p].before, PKOf(p)) = {"V0", "V1"}

IsWrite(command) == command.cmd \in {"Put", "Update", "Delete"}

\* C9: an update of an entity that has no V0 record issues no write and leaves
\* the table as it found it, and it ends with the 'not found' error, whether
\* createNewVersion is true or false.
C9_UpdateMissingWritesNothing ==
    \A p \in Procs :
        (/\ calls[p].op = "update"
         /\ getById(calls[p].before, calls[p].args.entityType, calls[p].args.id,
                    LATEST_VERSION) = {}) =>
            /\ table = calls[p].before
            /\ \A i \in 1..Len(calls[p].sent) : ~IsWrite(calls[p].sent[i])
            /\ calls[p].pc \in {"get", "done"}
            /\ calls[p].pc = "done" =>
                 /\ calls[p].result.status = "error"
                 /\ calls[p].result.error = <<"Entity ", PKOf(p), " not found">>

\* an in-place update of an entity that was created and then deleted has failed
C9_Witness ==
    \E p \in Procs :
        /\ Done(p, "update") /\ ~calls[p].args.createNewVersion
        /\ calls[p].result.status = "error"
        /\ calls[p].args.id < nextId
        /\ DOMAIN calls[p].args.updates # {}

\* C10: delete of an entity that has no record under its partition key ends
\* with an error.
C10_DeleteMissingRaises ==
    \A p \in Procs :
        (Done(p, "delete") /\ VersionsOf(calls[p].before, PKOf(p)) = {}) =>
            calls[p].result.status = "error"

\* the archive put of the versioned update of p was rejected
ArchiveFailed(p) ==
    /\ calls[p].op = "update" /\ calls[p].args.createNewVersion
    /\ 2 \in calls[p].failed

\* C11 as stated: when the archive put of a versioned update has failed, the
\* put of V0 is sent all the same, and the update ends without an error unless
\* that put fails too.
C11_ArchiveFailureSilent ==
    \A p \in Procs :
        (ArchiveFailed(p) /\ calls[p].pc = "done") =>
            /\ Len(calls[p].sent) = 3
            /\ 3 \notin calls[p].failed => calls[p].result.status = "ok"

\* C11 amended: when the archive put of a versioned update fails, the update
\* ends at once with that error; the put of V0 is never sent, and V0 and the
\* archived versions stay as the update found them.
C11_ArchiveFailureRaised ==
    \A p \in Procs :
        ArchiveFailed(p) =>
            /\ calls[p].pc = "done"
            /\ calls[p].result = Err(StorageError(calls[p].sent[2]))
            /\ Len(calls[p].sent) = 2
            /\ table = calls[p].before

\* a versioned update that would have changed a field ended on its archive put
C11_Witness ==
    \E p \in Procs :
        /\ ArchiveFailed(p) /\ calls[p].pc = "done"
        /\ DOMAIN calls[p].args.updates = {"firstName"}
        /\ calls[p].args.updates.firstName # PriorOf(p).firstName

\* the keys of the DeleteCommands the delete of p sent
DeleteKeys(p) == {<<PKOf(p), v.SK>> : v \in calls[p].versions}

\* C16: when a storage command of create, getById, update or delete fails, the
\* call ends with the error of that command; the command is not sent again and
\* no command of the call is sent after it (the DeleteCommands of a delete all
\* go out before any of them completes, each of them once).
C16_StorageErrorSurfaces ==
    \A p \in Procs :
        calls[p].failed # {} =>
            IF calls[p].op = "delete" /\ calls[p].versions # {}
            THEN /\ calls[p].result.status = "error"
                 /\ \E key \in calls[p].failed :
                      calls[p].result.error = StorageError([cmd |-> "Delete", key |-> key])
                 /\ Len(calls[p].sent) = 1
                 /\ calls[p].failed \cup calls[p].pending \subseteq DeleteKeys(p)
                 /\ calls[p].failed \cap calls[p].pending = {}
            ELSE /\ calls[p].pc = "done"
                 /\ calls[p].failed = {Len(calls[p].sent)}
                 /\ calls[p].acked = Len(calls[p].sent) - 1
                 /\ calls[p].result = Err(StorageError(LastSent(p)))

\* a create ended on its rejected put, and the record is not stored
C16_Witness ==
    \E p \in Procs :
        /\ Done(p, "create") /\ calls[p].failed = {1}
        /\ getById(table, calls[p].args.entity.entityType, calls[p].args.entity.id,
                   LATEST_VERSION) = {}

\* C17: delete has no rollback: when some of its DeleteCommands fail and the
\* rest have completed, delete has ended with an error, every record whose
\* DeleteCommand succeeded is gone, and every record whose DeleteCommand failed
\* is still stored as it was.
C17_PartialDeleteLeavesOrphans ==
    \A p \in Procs :
        (Done(p, "delete") /\ calls[p].versions # {} /\ calls[p].failed # {}) =>
            /\ calls[p].result.status = "error"
            /\ \A key \in DeleteKeys(p) :
                 IF key \in calls[p].failed
                 THEN key \in DOMAIN table /\ table[key] = calls[p].before[key]
                 ELSE key \notin DOMAIN table

\* the delete of V0 succeeded after the delete of V1 had failed: the archived
\* record is left without a current one
C17_Witness ==
    \E p \in Procs :
        /\ Done(p, "delete") /\ calls[p].versions # {}
        /\ calls[p].failed = {<<PKOf(p), "V1">>}
        /\ VersionsOf(table, PKOf(p)) = {"V1"}

\* the versioned updates of p and q have both completed without an error, on
\* the same entity and from the same read of V0
BothUpdatedFromSameRead(p, q) ==
    /\ p # q
    /\ VersionedUpdateDone(p) /\ VersionedUpdateDone(q)
    /\ PKOf(p) = PKOf(q)
    /\ calls[p].current = calls[q].current

\* C12: two versioned updates of one entity that both read the same V0 and
\* both complete without an error leave V0 as one of them alone wrote it from
\* that read, so the fields only the other one changed are back at what was
\* read, and leave one archived record for the two updates: V1, the snapshot
\* both of them archived.  Such a run exists (C12_Witness).
C12_ConcurrentUpdatesLoseOne ==
    \A p, q \in Procs :
        BothUpdatedFromSameRead(p, q) =>
            LET pk == PKOf(p)
                read == CHOOSE c \in calls[p].current : TRUE
            IN
            /\ \E w \in {p, q} :
                 table[<<pk, LATEST_VERSION>>] =
                     updatedItem(pk, read, calls[w].args.updates, calls[w].now)
            /\ ArchivedOf(table, pk) = {"V1"}
            /\ table[<<pk, "V1">>] = archiveItem(pk, read)

\* both updates are done; one of them set firstName to a new value, the other
\* did not name firstName, and V0 carries the firstName that was read
C12_Witness ==
    \E p, q \in Procs :
        /\ BothUpdatedFromSameRead(p, q)
        /\ LET read == CHOOSE c \in calls[p].current : TRUE IN
           /\ "firstName" \in DOMAIN calls[p].args.updates
           /\ calls[p].args.updates.firstName # read.firstName
           /\ "firstName" \notin DOMAIN calls[q].args.updates
           /\ calls[p].result.value # {}
           /\ table[<<PKOf(p), LATEST_VERSION>>].firstName = read.firstName
           /\ ArchivedOf(table, PKOf(p)) = {"V1"}

InPlaceUpdateDone(p) ==
    /\ Done(p, "update") /\ ~calls[p].args.createNewVersion
    /\ calls[p].result.status = "ok"

\* the payload of the update of p names no value that V0 did not already carry
\* when the update was called, as on the second of two calls with one payload
PayloadAlreadyApplied(p) ==
    \A f \in DOMAIN calls[p].args.updates : PriorOf(p)[f] = calls[p].args.updates[f]

\* C13: a completed in-place update leaves V0 as it found it, with the fields
\* of its payload set and updatedAt set to its time, and leaves every other
\* record of the table as it was: no archived version is created or changed.
\* So a second call with the same payload, which finds the payload's values in
\* V0, leaves V0 equal to the outcome of the first call in every field but
\* updatedAt.
C13_InPlaceIdempotent ==
    \A p \in Procs :
        InPlaceUpdateDone(p) =>
            LET v0 == <<PKOf(p), LATEST_VERSION>>
                prior == calls[p].before[v0]
                updates == calls[p].args.updates
            IN
            /\ DOMAIN table = DOMAIN calls[p].before
            /\ \A k \in DOMAIN table \ {v0} : table[k] = calls[p].before[k]
            /\ DOMAIN table[v0] = DOMAIN prior
            /\ \A f \in DOMAIN prior :
                 table[v0][f] = IF f = "updatedAt" THEN calls[p].now
                                ELSE IF f \in DOMAIN updates THEN updates[f]
                                ELSE prior[f]
            /\ PayloadAlreadyApplied(p) =>
                 \A f \in DOMAIN prior \ {"updatedAt"} : table[v0][f] = prior[f]
            /\ calls[p].result.value = {StripKeys(table[v0])}

\* an in-place update has run on a V0 that already carried its payload, at a
\* later time, for an entity that has an archived version
C13_Witness ==
    \E p \in Procs :
        /\ InPlaceUpdateDone(p)
        /\ DOMAIN calls[p].args.updates = {"firstName"}
        /\ PayloadAlreadyApplied(p)
        /\ PriorOf(p).updatedAt < table[<<PKOf(p), LATEST_VERSION>>].updatedAt
        /\ ArchivedOf(table, PKOf(p)) = {"V1"}

\* the keys of the current records of a kind
CurrentKeys(t, entityType) ==
    {k \in DOMAIN t : k[1][1] = entityType /\ k[2] = LATEST_VERSION}

C15_VersionedUpdateFrame ==
    \A p \in Procs :
        VersionedUpdateDone(p) =>
            LET v0 == table[<<PKOf(p), LATEST_VERSION>>]
                v1 == table[<<PKOf(p), "V1">>]
                prior == PriorOf(p)
                updates == calls[p].args.updates
            IN
            /\ DOMAIN updates \cap {"id", "createdAt", "entityType"} = {}
            /\ \A f \in {"id", "createdAt", "entityType"} :
                 v0[f] = prior[f] /\ v1[f] = prior[f]
            /\ \A f \in DOMAIN updates : v0[f] = updates[f] /\ v1[f] = prior[f]
            /\ v0.updatedAt = calls[p].now /\ v1.updatedAt = prior.updatedAt
            /\ v1.updatedAt <= v0.updatedAt

\* V0 carries the new firstName and a later updatedAt than the archived record,
\* which carries the old firstName
C15_Witness ==
    \E p \in Procs :
        /\ VersionedUpdateDone(p)
        /\ "firstName" \in DOMAIN calls[p].args.updates
        /\ table[<<PKOf(p), LATEST_VERSION>>].firstName = calls[p].args.updates.firstName
        /\ table[<<PKOf(p), "V1">>].firstName # table[<<PKOf(p), LATEST_VERSION>>].firstName
        /\ table[<<PKOf(p), "V1">>].updatedAt < table[<<PKOf(p), LATEST_VERSION>>].updatedAt
        /\ table[<<PKOf(p), "V1">>].createdAt < table[<<PKOf(p), LATEST_VERSION>>].updatedAt

\* the key getById of p asked for was not stored
AskedForMissing(p) ==
    /\ Done(p, "getById")
    /\ <<PKOf(p), calls[p].args.version>> \notin DOMAIN table

\* C18: getById returns null, and no error, when no record is stored at the
\* key (kind, id, version) it asks for, whatever else is stored for the entity.
C18_MissingIsNull ==
    \A p \in Procs :
        AskedForMissing(p) => calls[p].result = Ok({})

\* V2 was asked for of an entity that has V0 and V1 but never had a V2
C18_Witness ==
    \E p \in Procs :
        /\ AskedForMissing(p)
        /\ calls[p].args.version = "V2"
        /\ VersionsOf(table, PKOf(p)) = {"V0", "V1"}

\* the current user records that carry the email
UsersWithEmail(t, email) == {k \in CurrentKeys(t, "USER") : t[k].email = email}

PrenupRecords(t, id) ==
    [k \in {x \in DOMAIN t : x[1] = createPartitionKey("PRENUP", id)} |-> t[k]]

IsExecuted(t, id) ==
    \E e \in getById(t, "PRENUP", id, LATEST_VERSION) : e.status = "EXECUTED"

\* C20: no step of a PUT /:id request changes a record of a prenup whose V0
\* carries status EXECUTED; a request that finds the prenup EXECUTED ends with
\* 'Cannot modify executed prenup' (400), and a request of a user who is
\* neither creator nor partner with 'Prenup not found' (404), each without
\* having sent a write.
C20_ExecutedNeverChanged ==
    [][/\ \A id \in PutIds :
            IsExecuted(table, id) => PrenupRecords(table', id) = PrenupRecords(table, id)
       /\ \A p \in Procs :
            (calls'[p].op = "putPrenup" /\ calls'[p].pc = "done"
               /\ calls'[p].result.status = "error") =>
                \A i \in 1..Len(calls'[p].sent) : ~IsWrite(calls'[p].sent[i])]_vars

\* the fields of BaseEntity the claim names
BaseFields == {"id", "createdAt", "entityType", "version"}

\* C21: once the delete and the update that overlapped it have both finished,
\* every entity is either absent (no record under its partition key) or fully
\* present: it has a V0 record that carries id, createdAt, entityType and
\* version; in particular no archived record is stored without a V0 record.
C21_AbsentOrFullyPresent ==
    Quiescent =>
        \A pk \in PKs :
            \/ VersionsOf(table, pk) = {}
            \/ /\ LATEST_VERSION \in VersionsOf(table, pk)
               /\ BaseFields \subseteq DOMAIN table[<<pk, LATEST_VERSION>>]

\* C28: with two createUser calls in flight, no two current user records
\* carry the same email: of two calls with one email at most one stores a
\* record.
C28_EmailsUniqueUnderConcurrency ==
    \A k1, k2 \in CurrentKeys(table, "USER") :
        table[k1].email = table[k2].email => k1 = k2

\* the records of all prenups
AllPrenupRecords(t) == [k \in {x \in DOMAIN t : t[x].entityType = "PRENUP"} |-> t[k]]

\* the invitation the call's token named when the call was made
InvitationAsked(p) == findInvitation(calls[p].before, calls[p].args.token)

\* the lookup of the call found an invitation past its expiry time
FoundExpired(p) ==
    /\ InvitationAsked(p) # {}
    /\ Only(InvitationAsked(p)).expiresAt < calls[p].args.at

\* the status, as stored now, of the invitation the call's token named
StatusNow(p) ==
    Only(getById(table, "PARTNER_INVITATION", Only(InvitationAsked(p)).id, LATEST_VERSION)).status

\* C22: an acceptPartnerInvitation(token, user) that succeeds found an
\* invitation with that token, not past its expiry time and PENDING, and
\* leaves the prenup with partnerId = user and the invitation ACCEPTED; while
\* the invitation is being marked ACCEPTED the prenup already carries the
\* partner and the invitation is still PENDING; an accept whose token names an
\* invitation that is no longer PENDING fails and leaves every prenup record
\* as it was; an accept that finds the invitation past its expiry time leaves
\* it EXPIRED and fails with 'Invalid or expired invitation'.
C22_AcceptOncePartnerFirst ==
    \A p \in Procs :
      /\ Done(p, "acceptPartnerInvitation") =>
           LET a == calls[p].args
               asked == InvitationAsked(p)
               ok == calls[p].result.status = "ok"
           IN
           /\ ok => /\ asked # {}
                    /\ ~FoundExpired(p)
                    /\ Only(asked).status = "PENDING"
                    /\ Only(getPrenupById(table, Only(asked).prenupId)).partnerId = a.partnerId
                    /\ StatusNow(p) = "ACCEPTED"
           /\ (asked # {} /\ Only(asked).status # "PENDING") =>
                    /\ ~ok
                    /\ AllPrenupRecords(table) = AllPrenupRecords(calls[p].before)
           /\ FoundExpired(p) =>
                    /\ calls[p].result = Err(<<"Invalid or expired invitation">>)
                    /\ StatusNow(p) = "EXPIRED"
      /\ (/\ calls[p].op = "acceptPartnerInvitation"
          /\ calls[p].pc \in {"markGet", "markUpdate"}
          /\ calls[p].args.mark = "ACCEPTED") =>
           /\ Only(getPrenupById(table, calls[p].args.prenupId)).partnerId = calls[p].args.partnerId
           /\ StatusNow(p) = "PENDING"

\* a second accept with the token of an accepted invitation has failed
C22_Witness ==
    \E p \in Procs :
      /\ Done(p, "acceptPartnerInvitation")
      /\ InvitationAsked(p) # {}
      /\ Only(InvitationAsked(p)).status = "ACCEPTED"
      /\ calls[p].result.status = "error"

\* C23: once an invitation is ACCEPTED no step of an invitePartner,
\* getPartnerInvitation or acceptPartnerInvitation call, whenever it is made,
\* changes its status again.
C23_AcceptedIsTerminal ==
    [][\A k \in CurrentKeys(table, "PARTNER_INVITATION") :
         table[k].status = "ACCEPTED" =>
           k \in DOMAIN table' /\ table'[k].status = "ACCEPTED"]_vars

\* the prenup a finished call was about: the one it names, or the one the
\* invitation it names is for ({} when there is none)
PrenupAsked(p) ==
    IF calls[p].op = "acceptPartnerInvitation"
    THEN IF InvitationAsked(p) = {} THEN {}
         ELSE getPrenupById(calls[p].before, Only(InvitationAsked(p)).prenupId)
    ELSE getPrenupById(calls[p].before, calls[p].args.prenupId)

\* a call that may assign a partner has finished, on a prenup that had one
CalledOnPartnered(p) ==
    /\ calls[p].pc = "done"
    /\ calls[p].op \in {"addPartnerToPrenup", "invitePartner", "acceptPartnerInvitation"}
    /\ PrenupAsked(p) # {}
    /\ "partnerId" \in DOMAIN Only(PrenupAsked(p))

\* partnerId and partnerEmail of the prenup are what they were before the call
PartnerKept(p) ==
    LET was == Only(PrenupAsked(p))
        now == Only(getPrenupById(table, was.id))
    IN
    /\ {"partnerId", "partnerEmail"} \subseteq DOMAIN now
    /\ now.partnerId = was.partnerId
    /\ now.partnerEmail = was.partnerEmail

\* the first check of the call that fails when the prenup has a partner
FirstFailure(p) ==
    IF calls[p].op = "invitePartner" /\ Only(PrenupAsked(p)).createdBy # calls[p].args.invitedBy
    THEN "Only prenup creator can invite partners"
    ELSE IF calls[p].op = "acceptPartnerInvitation" /\ FoundExpired(p)
    THEN "Invalid or expired invitation"
    ELSE IF calls[p].op = "acceptPartnerInvitation" /\ Only(InvitationAsked(p)).status # "PENDING"
    THEN "Invitation has already been processed"
    ELSE "Prenup already has a partner"

\* C24 (as stated): with calls made one at a time, every addPartnerToPrenup,
\* invitePartner and acceptPartnerInvitation on a prenup whose partnerId is set
\* fails with 'Prenup already has a partner' and leaves partnerId and
\* partnerEmail unchanged.
C24_FailsAlreadyHasPartner ==
    \A p \in Procs :
      CalledOnPartnered(p) =>
        /\ calls[p].result = Err(<<"Prenup already has a partner">>)
        /\ PartnerKept(p)

\* C24 (amended): with calls made one at a time, every addPartnerToPrenup,
\* invitePartner and acceptPartnerInvitation on a prenup whose partnerId is set
\* fails and leaves partnerId and partnerEmail unchanged; the error is that of
\* the first check that fails: 'Only prenup creator can invite partners' for
\* an invitePartner by someone else than the creator, 'Invalid or expired
\* invitation' for an accept of an invitation past its expiry time,
\* 'Invitation has already been processed' for an accept of one that is not
\* PENDING, and 'Prenup already has a partner' otherwise.
C24_PartnerAssignedOnce ==
    \A p \in Procs :
      CalledOnPartnered(p) =>
        /\ calls[p].result = Err(<<FirstFailure(p)>>)
        /\ PartnerKept(p)

\* an accept of a PENDING invitation has failed on a prenup that had a partner
C24_Witness ==
    \E p \in Procs :
      /\ CalledOnPartnered(p)
      /\ calls[p].op = "acceptPartnerInvitation"
      /\ calls[p].result = Err(<<"Prenup already has a partner">>)

\* C25: in every reachable state the partnerId of a prenup, when set, differs
\* from its createdBy.
C25_PartnerIsNotCreator ==
    \A k \in CurrentKeys(table, "PRENUP") :
      "partnerId" \in DOMAIN table[k] => table[k].partnerId # table[k].createdBy

\* the invitePartner call found its prenup, created by invitedBy, without partner
InviteProceeds(p) ==
    LET prenup == getPrenupById(calls[p].before, calls[p].args.prenupId) IN
    /\ prenup # {}
    /\ Only(prenup).createdBy = calls[p].args.invitedBy
    /\ "partnerId" \notin DOMAIN Only(prenup)

\* the keys under which the call has stored a record that was not there before
NewKeys(p) == DOMAIN table \ DOMAIN calls[p].before

\* the records stored before the call, other than those of the prenup it names
OthersKept(p) ==
    \A k \in DOMAIN calls[p].before :
      k[1] # createPartitionKey("PRENUP", calls[p].args.prenupId) =>
        k \in DOMAIN table /\ table[k] = calls[p].before[k]

DisclosureBefore(p) ==
    getFinancialDisclosureByPrenupAndUser(calls[p].before, calls[p].args.prenupId,
                                          calls[p].args.userId)

====
